---- MODULE Spec2Model ----
(***************************************************************************)
(* rust-oids: the simulation engine.  One tick is one call of App::update  *)
(* (app/mod.rs): cleanup, input, the six systems' from_world / update /    *)
(* to_world, register_all.  The World owns the agent registry, the alife   *)
(* system decides energy, contacts and lifecycle, the physics system keeps *)
(* one rigid body per segment.                                             *)
(*                                                                         *)
(* Numbers are fixed point: energy 1.0 is EnergyOne, charge 1.0 is         *)
(* ChargeOne, a frame lasts Dt, every radius is Radius.  Positions are     *)
(* points of a line; the World extent is ExtentMin..ExtentMax.             *)
(***************************************************************************)
EXTENDS Integers, Sequences, FiniteSets, TLC

VARIABLES
    step,       \* position of App::update in UpdateSteps
    sys,        \* position of update_systems in Systems
    phase,      \* position of update_world in Phases
    world,      \* World: last_id, agents (the registry), registered
    physics,    \* PhysicsSystem: the b2 world (bodies, joints), handles, dropped
    alife,      \* AlifeSystem: dt, eaten, touched
    env,        \* input, clock, solver and contact events still to come
    calls,      \* the calls App::update has made so far in this tick
    freed,      \* what the last World::sweep returned
    unreg,      \* the unregister calls of the last cleanup
    reglog,     \* the ids PhysicsSystem::register has been called with
    ids,        \* every id handed out, in creation order
    before      \* the World as the last step, alife's to_world, found it

vars == <<step, sys, phase, world, physics, alife, env, calls, freed, unreg,
          reglog, ids, before>>

----------------------------------------------------------------------------
(* Bounds *)

MaxId == 3
MaxEnv == 3
MaxSegs == 3
MaxSeed == 3

(* Fixed-point scales and policy constants *)

EnergyOne == 2
MaxEnergy == 8
ChargeOne == 2
Radius == 1
Dt == 1
ExtentMin == 0
ExtentMax == 0
Unset == 255

None == 0
Dnas == {1, 2}
Positions == {0, 1}
Angles == {0, 1}
Kinds == {"Minion", "Resource", "Spore"}

----------------------------------------------------------------------------
(* Helpers *)

Range(s) == {s[i] : i \in DOMAIN s}

Min(a, b) == IF a < b THEN a ELSE b

RECURSIVE SortedSeq(_)
SortedSeq(S) ==
    IF S = {} THEN <<>>
    ELSE LET m == CHOOSE x \in S : \A y \in S : x <= y
         IN  <<m>> \o SortedSeq(S \ {m})

RECURSIVE AnySeq(_)
AnySeq(S) ==
    IF S = {} THEN <<>>
    ELSE LET x == CHOOSE y \in S : TRUE
         IN  <<x>> \o AnySeq(S \ {x})

Perms(S) == {p \in [1..Cardinality(S) -> S] : Range(p) = S}

Count(s, x) == Cardinality({i \in DOMAIN s : s[i] = x})

Last(s) == s[Len(s)]

----------------------------------------------------------------------------
(* Orchestration tables *)

SystemNames == {"physics", "animation", "game", "ai", "alife", "audio"}

SystemsAlifeTwice == <<"animation", "audio", "game", "ai", "alife", "alife">>

SystemsPhysicsFirst == <<"animation", "audio", "game", "ai", "physics", "alife">>

Systems == <<"animation", "audio", "game", "ai", "alife", "physics">>

Phases == <<"from_world", "update", "to_world">>

UpdateStepsCleanupLate == <<"update_input", "update_systems", "cleanup", "register_all">>

UpdateSteps == <<"cleanup", "update_input", "update_systems", "register_all">>

----------------------------------------------------------------------------
(* Data model: segments, agent State, agents *)

Ball == [kind |-> "Ball", n |-> 0]
Box == [kind |-> "Box", n |-> 0]
Triangle == [kind |-> "Triangle", n |-> 0]
Star(n) == [kind |-> "Star", n |-> n]

NoAttachment == [some |-> FALSE, index |-> 0, attachment_point |-> 0]
Attachment(index, point) == [some |-> TRUE, index |-> index, attachment_point |-> point]

Transform(position, angle) == [position |-> position, angle |-> angle, scale |-> 1]

\* segment State::with_charge: the charge filter and the contact back-reference
SegState(initial, target) ==
    [charge |-> initial, target_charge |-> target, last_touched |-> None]

Seg(limb, transform, charge) ==
    [shape |-> limb.shape, attached |-> limb.attached, flags |-> limb.flags,
     transform |-> transform, state |-> SegState(charge, 0)]

Limb(shape, attached, flags) == [shape |-> shape, attached |-> attached, flags |-> flags]

\* the morphology a Dna unfolds to: 1 is a single ball, 2 a star carrying two
\* children attached to it, 3 two balls that both eat and store
Morph(dna) ==
    IF dna = 1
    THEN << Limb(Ball, NoAttachment, {"MOUTH", "STORAGE", "TRACKER"}) >>
    ELSE IF dna = 2
    THEN << Limb(Star(5), NoAttachment, {"STORAGE", "TRACKER"}),
            Limb(Triangle, Attachment(0, 1), {"MOUTH"}),
            Limb(Box, Attachment(0, 3), {}) >>
    ELSE << Limb(Ball, NoAttachment, {"MOUTH", "STORAGE", "TRACKER"}),
            Limb(Ball, Attachment(0, 0), {"MOUTH", "STORAGE"}) >>

Gender(dna) == dna % 2

\* State::update, the first-order low-pass filter: alpha = 1 - exp(-dt/tau) is 0
\* for dt = 0 and AlphaNum/AlphaDen for a frame of Dt
AlphaNum(dt) == IF dt = 0 THEN 0 ELSE 1
AlphaDen == 2

SegUpdate(st, dt) ==
    [st EXCEPT !.charge = (st.target_charge * AlphaNum(dt)
                           + st.charge * (AlphaDen - AlphaNum(dt))) \div AlphaDen]

\* agent State; ndie counts the die() calls (saturating), for the record only
NewState(energy) ==
    [active |-> TRUE, energy |-> energy, expired |-> FALSE, foreign |-> None, ndie |-> 0]

is_active(st) == st.active
is_fertilised(st) == st.foreign # None

Renew(st) == [st EXCEPT !.expired = FALSE]

Die(st) == [st EXCEPT !.active = FALSE, !.ndie = Min(@ + 1, 2)]

Absorb(st, q) == [st EXCEPT !.energy = @ + q]

ConsumeSetsActive(st, q) ==
    [st EXCEPT !.energy = @ - q, !.active = (st.energy - q >= EnergyOne)]

Consume(st, q) == [st EXCEPT !.energy = @ - q]

\* the conditional debit of ratio (in quarters) of the energy capacity
ConsumeRatio(st, quarters) ==
    LET q == (MaxEnergy * quarters) \div 4
    IN  IF st.energy >= q THEN [ok |-> TRUE, state |-> Consume(st, q)]
        ELSE [ok |-> FALSE, state |-> st]

Fertilise(st, dna) == [st EXCEPT !.foreign = dna]

Outside(p) == p < ExtentMin \/ p > ExtentMax

----------------------------------------------------------------------------
(* World: id allocation and the creation entry points *)

EmptyWorld == [last_id |-> 0, agents |-> <<>>, registered |-> <<>>]

NextIdMax(w) ==
    IF DOMAIN w.agents = {} THEN 1
    ELSE (CHOOSE m \in DOMAIN w.agents : \A k \in DOMAIN w.agents : k <= m) + 1

NextId(w) == w.last_id + 1

Insert(w, agent) ==
    LET id == NextId(w)
    IN  [w EXCEPT !.last_id = id,
                  !.agents = (id :> agent) @@ @,
                  !.registered = Append(@, id)]

Build(limbs, transform, charge) ==
    [i \in 1..Len(limbs) |-> Seg(limbs[i], transform, charge)]

NewMinion(w, pos, dna, charge) ==
    Insert(w, [kind |-> "Minion", dna |-> dna, state |-> NewState(MaxEnergy),
               segs |-> Build(Morph(dna), Transform(pos, 0), charge)])

NewSpore(w, transform, dna) ==
    Insert(w, [kind |-> "Spore", dna |-> dna, state |-> NewState(EnergyOne),
               segs |-> Build(<<Limb(Ball, NoAttachment, {})>>, transform, ChargeOne)])

HatchSpore(w, transform, dna) ==
    Insert(w, [kind |-> "Minion", dna |-> dna, state |-> NewState(MaxEnergy),
               segs |-> Build(Morph(dna), transform, ChargeOne)])

DecayToResource(w, transform, dna) ==
    Insert(w, [kind |-> "Resource", dna |-> dna, state |-> NewState(EnergyOne),
               segs |-> Build(<<Limb(Ball, NoAttachment, {})>>, transform, ChargeOne)])

AgentsOf(ags, kind) == {id \in DOMAIN ags : ags[id].kind = kind}

SweepMinions(w) ==
    LET dead == {id \in DOMAIN w.agents : /\ ~is_active(w.agents[id].state)
                                          /\ w.agents[id].kind = "Minion"}
    IN  [world |-> [w EXCEPT !.agents = [id \in DOMAIN w.agents \ dead |-> w.agents[id]]],
         freed |-> SortedSeq(dead)]

SweepForgets(w) ==
    LET dead == {id \in DOMAIN w.agents : ~is_active(w.agents[id].state)}
    IN  [world |-> [w EXCEPT !.agents = [id \in DOMAIN w.agents \ dead |-> w.agents[id]]],
         freed |-> <<>>]

\* World::sweep: the inactive agents leave the registry and are returned
Sweep(w) ==
    LET dead == {id \in DOMAIN w.agents : ~is_active(w.agents[id].state)}
    IN  [world |-> [w EXCEPT !.agents = [id \in DOMAIN w.agents \ dead |-> w.agents[id]]],
         freed |-> SortedSeq(dead)]

\* World::registered: the ids created since the last call, which it forgets
Registered(w) == [world |-> [w EXCEPT !.registered = <<>>], ids |-> w.registered]

----------------------------------------------------------------------------
(* AlifeSystem *)

NewAlife == [dt |-> Dt, eaten |-> <<>>, touched |-> <<>>]

FindEatenAnyKind(ags) ==
    LET minions == {id \in AgentsOf(ags, "Minion") : is_active(ags[id].state)}
        touchedBy(m) == {ags[m].segs[i].state.last_touched :
                            i \in {j \in DOMAIN ags[m].segs : "MOUTH" \in ags[m].segs[j].flags}}
        found == {k \in UNION {touchedBy(m) : m \in minions} : k # None /\ k \in DOMAIN ags}
    IN  [k \in found |-> ags[k].state]

\* the Resources active Minions' MOUTH segments point at, with a clone of the
\* Resource's State
FindEatenResources(ags) ==
    LET minions == {id \in AgentsOf(ags, "Minion") : is_active(ags[id].state)}
        touchedBy(m) == {ags[m].segs[i].state.last_touched :
                            i \in {j \in DOMAIN ags[m].segs : "MOUTH" \in ags[m].segs[j].flags}}
        found == {k \in UNION {touchedBy(m) : m \in minions} :
                    k # None /\ k \in AgentsOf(ags, "Resource")}
    IN  [k \in found |-> ags[k].state]

\* the Minions of the other gender that active, unfertilised Spores point at,
\* keyed by the Minion's id, with a clone of the Minion's Dna
FindTouchedSpores(ags) ==
    LET spores == {id \in AgentsOf(ags, "Spore") :
                      is_active(ags[id].state) /\ ~is_fertilised(ags[id].state)}
        touchedBy(sp) == {k \in {ags[sp].segs[i].state.last_touched : i \in DOMAIN ags[sp].segs} :
                            /\ k # None
                            /\ k \in AgentsOf(ags, "Minion")
                            /\ Gender(ags[k].dna) # Gender(ags[sp].dna)}
        found == UNION {touchedBy(sp) : sp \in spores}
    IN  [k \in found |-> ags[k].dna]

AlifeFrom(al, w) ==
    [al EXCEPT !.eaten = FindEatenResources(w.agents),
               !.touched = FindTouchedSpores(w.agents)]

UpdateResourceNoExpiry(a, id, dt, eaten) ==
    IF id \in DOMAIN eaten THEN [a EXCEPT !.state = Die(@)]
    ELSE IF a.state.energy <= 0 THEN [a EXCEPT !.state = Die(@)]
    ELSE IF is_active(a.state)
         THEN [a EXCEPT !.segs = [i \in DOMAIN a.segs |->
                                    [a.segs[i] EXCEPT !.state = SegUpdate(@, dt)]]]
    ELSE a

UpdateResource(a, id, dt, eaten) ==
    IF id \in DOMAIN eaten THEN [a EXCEPT !.state = Die(@)]
    ELSE IF a.state.energy <= 0 THEN [a EXCEPT !.state = Die(@)]
    ELSE IF a.state.expired THEN [a EXCEPT !.state = Die(@)]
    ELSE IF is_active(a.state)
         THEN [a EXCEPT !.segs = [i \in DOMAIN a.segs |->
                                    [a.segs[i] EXCEPT !.state = SegUpdate(@, dt)]]]
    ELSE a

UpdateResources(ags, dt, eaten) ==
    [id \in DOMAIN ags |->
        IF ags[id].kind = "Resource" THEN UpdateResource(ags[id], id, dt, eaten)
        ELSE ags[id]]

\* the per-segment loop of update_minions: boundary, mouth, upkeep, charge
RECURSIVE MinionSegmentsFirstMouth(_, _, _, _, _)
MinionSegmentsFirstMouth(st, segs, i, dt, eaten) ==
    IF i > Len(segs) THEN [state |-> st, segs |-> segs]
    ELSE LET seg == segs[i]
             key == seg.state.last_touched
             first == \A j \in 1..(i - 1) : "MOUTH" \notin segs[j].flags
             s1 == IF Outside(seg.transform.position) THEN Die(st) ELSE st
             s2 == IF "MOUTH" \in seg.flags /\ first /\ key # None /\ key \in DOMAIN eaten
                   THEN Absorb(s1, eaten[key].energy)
                   ELSE s1
             s3 == Consume(s2, dt * seg.state.charge * Radius)
         IN  MinionSegmentsFirstMouth(s3, [segs EXCEPT ![i].state = SegUpdate(@, dt)],
                                      i + 1, dt, eaten)

RECURSIVE MinionSegments(_, _, _, _, _)
MinionSegments(st, segs, i, dt, eaten) ==
    IF i > Len(segs) THEN [state |-> st, segs |-> segs]
    ELSE LET seg == segs[i]
             key == seg.state.last_touched
             s1 == IF Outside(seg.transform.position) THEN Die(st) ELSE st
             s2 == IF "MOUTH" \in seg.flags /\ key # None /\ key \in DOMAIN eaten
                   THEN Absorb(s1, eaten[key].energy)
                   ELSE s1
             s3 == Consume(s2, dt * seg.state.charge * Radius)
         IN  MinionSegments(s3, [segs EXCEPT ![i].state = SegUpdate(@, dt)],
                            i + 1, dt, eaten)

Event(transform, dna) == [transform |-> transform, dna |-> dna]

UpdateMinionOneCorpse(a, dt, eaten) ==
    IF ~is_active(a.state) THEN [agent |-> a, spawns |-> <<>>, corpses |-> <<>>]
    ELSE LET debit == ConsumeRatio(a.state, 3)
             repro == a.state.expired /\ debit.ok
             s0 == IF repro THEN Renew(debit.state) ELSE a.state
             r == MinionSegments(s0, a.segs, 1, dt, eaten)
             starved == r.state.energy < EnergyOne
         IN  [agent |-> [a EXCEPT !.state = IF starved THEN Die(r.state) ELSE r.state,
                                  !.segs = r.segs],
              spawns |-> IF repro THEN <<Event(Last(a.segs).transform, a.dna)>> ELSE <<>>,
              corpses |-> IF starved THEN <<Event(a.segs[1].transform, a.dna)>> ELSE <<>>]

UpdateMinionNoRenew(a, dt, eaten) ==
    IF ~is_active(a.state) THEN [agent |-> a, spawns |-> <<>>, corpses |-> <<>>]
    ELSE LET debit == ConsumeRatio(a.state, 3)
             repro == a.state.expired /\ debit.ok
             s0 == IF repro THEN debit.state ELSE a.state
             r == MinionSegments(s0, a.segs, 1, dt, eaten)
             starved == r.state.energy < EnergyOne
             storage == SelectSeq(r.segs, LAMBDA s : "STORAGE" \in s.flags)
         IN  [agent |-> [a EXCEPT !.state = IF starved THEN Die(r.state) ELSE r.state,
                                  !.segs = r.segs],
              spawns |-> IF repro THEN <<Event(Last(a.segs).transform, a.dna)>> ELSE <<>>,
              corpses |-> IF starved
                          THEN [i \in 1..Len(storage) |-> Event(storage[i].transform, a.dna)]
                          ELSE <<>>]

UpdateMinionSpawnsUnpaid(a, dt, eaten) ==
    IF ~is_active(a.state) THEN [agent |-> a, spawns |-> <<>>, corpses |-> <<>>]
    ELSE LET debit == ConsumeRatio(a.state, 3)
             repro == a.state.expired
             s0 == IF repro THEN Renew(debit.state) ELSE a.state
             r == MinionSegments(s0, a.segs, 1, dt, eaten)
             starved == r.state.energy < EnergyOne
             storage == SelectSeq(r.segs, LAMBDA s : "STORAGE" \in s.flags)
         IN  [agent |-> [a EXCEPT !.state = IF starved THEN Die(r.state) ELSE r.state,
                                  !.segs = r.segs],
              spawns |-> IF repro THEN <<Event(Last(a.segs).transform, a.dna)>> ELSE <<>>,
              corpses |-> IF starved
                          THEN [i \in 1..Len(storage) |-> Event(storage[i].transform, a.dna)]
                          ELSE <<>>]

UpdateMinion(a, dt, eaten) ==
    IF ~is_active(a.state) THEN [agent |-> a, spawns |-> <<>>, corpses |-> <<>>]
    ELSE LET debit == ConsumeRatio(a.state, 3)
             repro == a.state.expired /\ debit.ok
             s0 == IF repro THEN Renew(debit.state) ELSE a.state
             r == MinionSegments(s0, a.segs, 1, dt, eaten)
             starved == r.state.energy < EnergyOne
             storage == SelectSeq(r.segs, LAMBDA s : "STORAGE" \in s.flags)
         IN  [agent |-> [a EXCEPT !.state = IF starved THEN Die(r.state) ELSE r.state,
                                  !.segs = r.segs],
              spawns |-> IF repro THEN <<Event(Last(a.segs).transform, a.dna)>> ELSE <<>>,
              corpses |-> IF starved
                          THEN [i \in 1..Len(storage) |-> Event(storage[i].transform, a.dna)]
                          ELSE <<>>]

RECURSIVE UpdateMinionsSpend(_, _, _, _)
UpdateMinionsSpend(ags, order, dt, eaten) ==
    IF order = <<>> THEN [agents |-> ags, spawns |-> <<>>, corpses |-> <<>>]
    ELSE LET id == Head(order)
             r == UpdateMinion(ags[id], dt, eaten)
             spent == IF is_active(ags[id].state)
                      THEN {ags[id].segs[i].state.last_touched :
                               i \in {j \in DOMAIN ags[id].segs : "MOUTH" \in ags[id].segs[j].flags}}
                      ELSE {}
             left == [k \in DOMAIN eaten \ spent |-> eaten[k]]
             rest == UpdateMinionsSpend(ags, Tail(order), dt, left)
         IN  [agents |-> [rest.agents EXCEPT ![id] = r.agent],
              spawns |-> r.spawns \o rest.spawns,
              corpses |-> r.corpses \o rest.corpses]

\* update_minions over the Minions in the map's iteration order
RECURSIVE UpdateMinions(_, _, _, _)
UpdateMinions(ags, order, dt, eaten) ==
    IF order = <<>> THEN [agents |-> ags, spawns |-> <<>>, corpses |-> <<>>]
    ELSE LET id == Head(order)
             r == UpdateMinion(ags[id], dt, eaten)
             rest == UpdateMinions(ags, Tail(order), dt, eaten)
         IN  [agents |-> [rest.agents EXCEPT ![id] = r.agent],
              spawns |-> r.spawns \o rest.spawns,
              corpses |-> r.corpses \o rest.corpses]

\* Genome::crossover draws from the random source: either parent's Dna
Crossover(dna, foreign, draw) ==
    IF foreign = None THEN dna
    ELSE IF draw THEN foreign ELSE dna

RECURSIVE SporeTouches(_, _, _, _)
SporeTouches(st, segs, i, touched) ==
    IF i > Len(segs) THEN st
    ELSE LET key == segs[i].state.last_touched
         IN  SporeTouches(IF key # None /\ key \in DOMAIN touched
                          THEN Fertilise(st, touched[key]) ELSE st,
                          segs, i + 1, touched)

UpdateSporeKeepsSpore(a, dt, touched, draw) ==
    IF a.state.expired
    THEN [agent |-> a,
          hatch |-> <<Event(a.segs[1].transform, Crossover(a.dna, a.state.foreign, draw))>>]
    ELSE IF is_active(a.state)
    THEN [agent |-> [a EXCEPT !.state = SporeTouches(@, a.segs, 1, touched),
                              !.segs = [i \in DOMAIN a.segs |->
                                          [a.segs[i] EXCEPT !.state = SegUpdate(@, dt)]]],
          hatch |-> <<>>]
    ELSE [agent |-> a, hatch |-> <<>>]

UpdateSpore(a, dt, touched, draw) ==
    IF a.state.expired
    THEN [agent |-> [a EXCEPT !.state = Die(@)],
          hatch |-> <<Event(a.segs[1].transform, Crossover(a.dna, a.state.foreign, draw))>>]
    ELSE IF is_active(a.state)
    THEN [agent |-> [a EXCEPT !.state = SporeTouches(@, a.segs, 1, touched),
                              !.segs = [i \in DOMAIN a.segs |->
                                          [a.segs[i] EXCEPT !.state = SegUpdate(@, dt)]]],
          hatch |-> <<>>]
    ELSE [agent |-> a, hatch |-> <<>>]

RECURSIVE UpdateSpores(_, _, _, _, _)
UpdateSpores(ags, order, dt, touched, draw) ==
    IF order = <<>> THEN [agents |-> ags, hatch |-> <<>>]
    ELSE LET id == Head(order)
             r == UpdateSpore(ags[id], dt, touched, draw)
             rest == UpdateSpores(ags, Tail(order), dt, touched, draw)
         IN  [agents |-> [rest.agents EXCEPT ![id] = r.agent],
              hatch |-> r.hatch \o rest.hatch]

RECURSIVE Create(_, _, _)
Create(w, events, kind) ==
    IF events = <<>> THEN w
    ELSE LET e == Head(events)
             w1 == IF kind = "spore" THEN NewSpore(w, e.transform, e.dna)
                   ELSE IF kind = "hatch" THEN HatchSpore(w, e.transform, e.dna)
                   ELSE DecayToResource(w, e.transform, e.dna)
         IN  Create(w1, Tail(events), kind)

\* AlifeSystem::to_world: the three passes, every event collected, then the
\* creations, spores first, hatchlings next, decayed corpses last
AlifePasses(al, w, minions, spores, draw) ==
    LET a1 == UpdateResources(w.agents, al.dt, al.eaten)
        m == UpdateMinions(a1, minions, al.dt, al.eaten)
        s == UpdateSpores(m.agents, spores, al.dt, al.touched, draw)
    IN  [agents |-> s.agents, spawns |-> m.spawns, hatch |-> s.hatch, corpses |-> m.corpses]

AlifeToCreatesEarly(al, w, minions, spores, draw) ==
    LET a1 == UpdateResources(w.agents, al.dt, al.eaten)
        m == UpdateMinions(a1, minions, al.dt, al.eaten)
        w1 == Create([w EXCEPT !.agents = m.agents], m.spawns, "spore")
        new == SortedSeq(DOMAIN w1.agents \ DOMAIN w.agents)
        s == UpdateSpores(w1.agents, spores \o new, al.dt, al.touched, draw)
    IN  Create(Create([w1 EXCEPT !.agents = s.agents], s.hatch, "hatch"), m.corpses, "corpse")

AlifeTo(al, w, minions, spores, draw) ==
    LET p == AlifePasses(al, w, minions, spores, draw)
        w0 == [w EXCEPT !.agents = p.agents]
    IN  Create(Create(Create(w0, p.spawns, "spore"), p.hatch, "hatch"), p.corpses, "corpse")

----------------------------------------------------------------------------
(* PhysicsSystem *)

\* CreatureRefs; the indices are u8
Refs(id, limb, bone) == [creature_id |-> id, limb_index |-> limb % 256, bone_index |-> bone % 256]
WithLimb(id, limb) == Refs(id, limb, Unset)
WithBone(id, limb, bone) == Refs(id, limb, bone)

\* log holds the capability calls of the last register or update, for the
\* record only
NewPhysics ==
    [bodies |-> <<>>, joints |-> <<>>, next |-> 1, handles |-> <<>>,
     dropped |-> <<>>, edge |-> 0, remote |-> 0, log |-> <<>>]

Op(op, id, a, b) == [op |-> op, id |-> id, a |-> a, b |-> b]

FixturesOneTag(shape, id, limb) ==
    IF shape.kind = "Star"
    THEN [i \in 1..shape.n |-> WithLimb(id, limb)]
    ELSE <<WithLimb(id, limb)>>

\* the fixtures one body gets: one for a Ball, a Box and a Triangle, one per
\* point of a Star, each with its own bone index
Fixtures(shape, id, limb) ==
    IF shape.kind = "Star"
    THEN [i \in 1..shape.n |-> WithBone(id, limb, i - 1)]
    ELSE <<WithLimb(id, limb)>>

\* build_fixtures: one dynamic body per limb, at the limb's transform, tagged
\* with_limb(id, index), then its fixtures; the JointRefs in limb order
RECURSIVE BuildFixtures(_, _, _, _)
BuildFixtures(ph, id, segs, i) ==
    IF i > Len(segs) THEN [physics |-> ph, joint_refs |-> <<>>]
    ELSE LET seg == segs[i]
             refs == WithLimb(id, i - 1)
             handle == ph.next
             fx == Fixtures(seg.shape, id, i - 1)
             body == [user_data |-> refs,
                      position |-> seg.transform.position,
                      angle |-> seg.transform.angle,
                      fixtures |-> fx]
             ph1 == [ph EXCEPT !.bodies = (handle :> body) @@ @,
                               !.next = @ + 1,
                               !.log = @ \o <<Op("create_body", id, handle, i - 1)>>
                                         \o [k \in 1..Len(fx) |->
                                               Op("create_fixture", id, handle, fx[k].bone_index)]]
             rest == BuildFixtures(ph1, id, segs, i + 1)
         IN  [physics |-> rest.physics,
              joint_refs |-> <<[refs |-> refs, handle |-> handle, shape |-> seg.shape,
                                attachment |-> seg.attached]>> \o rest.joint_refs]

RECURSIVE BuildJointsChain(_, _, _, _)
BuildJointsChain(ph, id, joint_refs, i) ==
    IF i > Len(joint_refs) THEN ph
    ELSE LET jr == joint_refs[i]
             upstream == joint_refs[IF i > 1 THEN i - 1 ELSE 1]
             joint == [body_a |-> upstream.handle, body_b |-> jr.handle,
                       collide_connected |-> TRUE,
                       local_anchor_a |-> [vertex |-> jr.attachment.attachment_point,
                                           radius |-> Radius],
                       local_anchor_b |-> [vertex |-> 0, radius |-> Radius]]
         IN  BuildJointsChain(IF jr.attachment.some
                              THEN [ph EXCEPT !.joints = Append(@, joint),
                                              !.log = Append(@, Op("create_joint", id,
                                                                   upstream.handle, jr.handle))]
                              ELSE ph,
                              id, joint_refs, i + 1)

\* joint_refs[attachment.index] is an index into a Vec: past the end it panics
OutOfRange(attachment, n) == attachment.some /\ attachment.index + 1 > n

Panics(agent) ==
    \E i \in DOMAIN agent.segs : OutOfRange(agent.segs[i].attached, Len(agent.segs))

\* build_joints: a revolute joint from the attachment's body to each attached
\* body; the loop ends where the lookup of the upstream JointRef panics
RECURSIVE BuildJoints(_, _, _, _)
BuildJoints(ph, id, joint_refs, i) ==
    IF i > Len(joint_refs) THEN ph
    ELSE LET jr == joint_refs[i]
             upstream == joint_refs[jr.attachment.index + 1]
             joint == [body_a |-> upstream.handle, body_b |-> jr.handle,
                       collide_connected |-> TRUE,
                       local_anchor_a |-> [vertex |-> jr.attachment.attachment_point,
                                           radius |-> Radius],
                       local_anchor_b |-> [vertex |-> 0, radius |-> Radius]]
         IN  IF OutOfRange(jr.attachment, Len(joint_refs)) THEN ph
             ELSE BuildJoints(IF jr.attachment.some
                              THEN [ph EXCEPT !.joints = Append(@, joint),
                                              !.log = Append(@, Op("create_joint", id,
                                                                   upstream.handle, jr.handle))]
                              ELSE ph,
                              id, joint_refs, i + 1)

RegisterRecordsRoot(ph, id, agent) ==
    LET f == BuildFixtures([ph EXCEPT !.log = <<>>], id, agent.segs, 1)
        j == BuildJoints(f.physics, id, f.joint_refs, 1)
    IN  [j EXCEPT !.handles = (f.joint_refs[1].refs :> f.joint_refs[1].handle) @@ @]

Register(ph, id, agent) ==
    LET f == BuildFixtures([ph EXCEPT !.log = <<>>], id, agent.segs, 1)
        j == BuildJoints(f.physics, id, f.joint_refs, 1)
        recorded == [r \in {f.joint_refs[i].refs : i \in DOMAIN f.joint_refs} |->
                        (CHOOSE i \in DOMAIN f.joint_refs : f.joint_refs[i].refs = r
                            /\ \A k \in DOMAIN f.joint_refs :
                                  f.joint_refs[k].refs = r => k <= i) ]
    IN  IF Panics(agent) THEN j
        ELSE [j EXCEPT !.handles =
                 [r \in DOMAIN recorded |-> f.joint_refs[recorded[r]].handle] @@ @]

\* unregister: the bodies tagged with the agent go, with the joints on them
\* and their handle entries
Unregister(ph, id) ==
    LET gone == {h \in DOMAIN ph.bodies : ph.bodies[h].user_data.creature_id = id}
    IN  [ph EXCEPT !.bodies = [h \in DOMAIN ph.bodies \ gone |-> ph.bodies[h]],
                   !.joints = SelectSeq(@, LAMBDA j : j.body_a \notin gone /\ j.body_b \notin gone),
                   !.handles = [r \in {q \in DOMAIN ph.handles : q.creature_id # id} |->
                                   ph.handles[r]]]

Sign(x) == IF x > 0 THEN 1 ELSE IF x < 0 THEN 0 - 1 ELSE 0

\* the force update collects for one body: limbs 1 and 2 steer towards remote
\* with a force of 10 unless the direction is exactly zero, limbs 3 and 4
\* thrust along their facing with a force of 3, the others get none
ForceOn(ph, h) ==
    LET key == ph.bodies[h].user_data
        v == ph.remote - ph.bodies[h].position
    IN  IF key.limb_index \in {1, 2}
        THEN IF v # 0 THEN <<Op("apply_force", key.creature_id, h, 10 * Sign(v))>> ELSE <<>>
        ELSE IF key.limb_index \in {3, 4}
        THEN <<Op("apply_force", key.creature_id, h, 3)>>
        ELSE <<>>

RECURSIVE Forces(_, _)
Forces(ph, hs) ==
    IF hs = <<>> THEN <<>> ELSE ForceOn(ph, Head(hs)) \o Forces(ph, Tail(hs))

PhysicsUpdateDrops(ph, dt, moved, position, angle) ==
    [ph EXCEPT !.bodies = [h \in DOMAIN ph.bodies |->
                             IF h \in moved
                             THEN [ph.bodies[h] EXCEPT !.position = position, !.angle = angle]
                             ELSE ph.bodies[h]],
               !.dropped = @ \o AnySeq({ph.bodies[h].user_data : h \in {x \in moved : position > ph.edge}}),
               !.log = Forces(ph, SortedSeq(DOMAIN ph.bodies)) \o <<Op("step", dt, 8, 3)>>]

PhysicsUpdateForcesAll(ph, dt, moved, position, angle) ==
    [ph EXCEPT !.bodies = [h \in DOMAIN ph.bodies |->
                             IF h \in moved
                             THEN [ph.bodies[h] EXCEPT !.position = position, !.angle = angle]
                             ELSE ph.bodies[h]],
               !.log = [k \in 1..Cardinality(DOMAIN ph.bodies) |->
                           LET h == SortedSeq(DOMAIN ph.bodies)[k]
                           IN  Op("apply_force", ph.bodies[h].user_data.creature_id, h,
                                  10 * Sign(ph.remote - ph.bodies[h].position))]
                       \o <<Op("step", dt, 8, 3)>>]

\* Updateable::update: the forces are collected over the bodies and applied,
\* then step(dt, 8, 3) moves the bodies; where the solver puts them is its
\* business. The log holds the capability calls of the update.
PhysicsUpdate(ph, dt, moved, position, angle) ==
    [ph EXCEPT !.bodies = [h \in DOMAIN ph.bodies |->
                             IF h \in moved
                             THEN [ph.bodies[h] EXCEPT !.position = position, !.angle = angle]
                             ELSE ph.bodies[h]],
               !.log = Forces(ph, SortedSeq(DOMAIN ph.bodies)) \o <<Op("step", dt, 8, 3)>>]

\* Flock::kill
Kill(ags, id) == [k \in DOMAIN ags \ {id} |-> ags[k]]

RECURSIVE KillDropped(_, _)
KillDropped(ags, dropped) ==
    IF dropped = <<>> THEN ags
    ELSE KillDropped(Kill(ags, Head(dropped).creature_id), Tail(dropped))

PhysicsToResetsScale(ph, w) ==
    LET ags == KillDropped(w.agents, ph.dropped)
        bodiesOf(id, limb) == {h \in DOMAIN ph.bodies :
                                  /\ ph.bodies[h].user_data.creature_id = id
                                  /\ ph.bodies[h].user_data.limb_index = limb}
        written(id, i) ==
            LET hs == bodiesOf(id, i - 1)
                h == CHOOSE x \in hs : \A y \in hs : y <= x
            IN  IF hs = {} THEN ags[id].segs[i]
                ELSE [ags[id].segs[i] EXCEPT
                         !.transform = Transform(ph.bodies[h].position, ph.bodies[h].angle)]
    IN  [w EXCEPT !.agents = [id \in DOMAIN ags |->
                                [ags[id] EXCEPT !.segs = [i \in DOMAIN ags[id].segs |->
                                                            written(id, i)]]]]

\* to_world: the dropped die, then every body's position and angle go to the
\* limb its tag names, if the World still has it; the scale stays
PhysicsTo(ph, w) ==
    LET ags == KillDropped(w.agents, ph.dropped)
        bodiesOf(id, limb) == {h \in DOMAIN ph.bodies :
                                  /\ ph.bodies[h].user_data.creature_id = id
                                  /\ ph.bodies[h].user_data.limb_index = limb}
        written(id, i) ==
            LET hs == bodiesOf(id, i - 1)
                h == CHOOSE x \in hs : \A y \in hs : y <= x
            IN  IF hs = {} THEN ags[id].segs[i]
                ELSE [ags[id].segs[i] EXCEPT
                         !.transform = [position |-> ph.bodies[h].position,
                                        angle |-> ph.bodies[h].angle,
                                        scale |-> @.scale]]
    IN  [w EXCEPT !.agents = [id \in DOMAIN ags |->
                                [ags[id] EXCEPT !.segs = [i \in DOMAIN ags[id].segs |->
                                                            written(id, i)]]]]

\* contact detection: the segments that alife reads get their last_touched
Contacts(w, touch) ==
    [w EXCEPT !.agents = [id \in DOMAIN w.agents |->
        [w.agents[id] EXCEPT !.segs = [i \in DOMAIN w.agents[id].segs |->
            IF <<id, i>> \in DOMAIN touch
            THEN [w.agents[id].segs[i] EXCEPT !.state.last_touched = touch[<<id, i>>]]
            ELSE w.agents[id].segs[i]]]]]

----------------------------------------------------------------------------
(* App::update, one step at a time *)

Call(who, what) == <<who, what>>

\* step is 0 once the process has panicked
AtStep(name) == step \in DOMAIN UpdateSteps /\ UpdateSteps[step] = name

AtPhase(name) == AtStep("update_systems") /\ Phases[phase] = name

At(system, name) == AtPhase(name) /\ Systems[sys] = system

\* the tick starts with the first step of App::update
Log(c) == calls' = IF step = 1 THEN <<c>> ELSE Append(calls, c)

NextStep ==
    /\ step' = (step % Len(UpdateSteps)) + 1
    /\ sys' = 1
    /\ phase' = 1

\* System::update_world is from_world, update, to_world; update_systems calls
\* it on one system after the other
NextPhase ==
    IF phase < Len(Phases)
    THEN /\ phase' = phase + 1
         /\ UNCHANGED <<step, sys>>
    ELSE IF sys < Len(Systems)
    THEN /\ sys' = sys + 1
         /\ phase' = 1
         /\ UNCHANGED step
    ELSE NextStep

\* what the sweep returned is gone once cleanup is over, and what alife's
\* to_world found once the next step is over
Forget == freed' = <<>> /\ unreg' = <<>> /\ before' = EmptyWorld

\* the ids the creation entry points have handed out in this step
Issued(w) == ids' = ids \o SubSeq(w.registered, Len(world.registered) + 1, Len(w.registered))

UnregisterCallsSkipLast(fr) ==
    [k \in 1..((Len(Systems) - 1) * Len(fr)) |->
        <<Systems[((k - 1) \div Len(fr)) + 1], fr[((k - 1) % Len(fr)) + 1]>>]

\* App::cleanup: for_each system, for each freed agent, unregister
UnregisterCalls(fr) ==
    [k \in 1..(Len(Systems) * Len(fr)) |->
        <<Systems[((k - 1) \div Len(fr)) + 1], fr[((k - 1) % Len(fr)) + 1]>>]

RECURSIVE UnregisterEachFirst(_, _)
UnregisterEachFirst(ph, cl) ==
    IF cl = <<>> THEN ph
    ELSE IF Head(cl)[1] = "physics" THEN Unregister(ph, Head(cl)[2])
    ELSE UnregisterEachFirst(ph, Tail(cl))

RECURSIVE UnregisterEach(_, _)
UnregisterEach(ph, cl) ==
    IF cl = <<>> THEN ph
    ELSE UnregisterEach(IF Head(cl)[1] = "physics" THEN Unregister(ph, Head(cl)[2]) ELSE ph,
                        Tail(cl))

Cleanup ==
    /\ AtStep("cleanup")
    /\ LET sw == Sweep(world)
           cl == UnregisterCalls(sw.freed)
       IN  /\ world' = sw.world
           /\ freed' = sw.freed
           /\ unreg' = cl
           /\ physics' = UnregisterEach(physics, cl)
    /\ Log(Call("app", "cleanup"))
    /\ NextStep
    /\ UNCHANGED <<alife, env, reglog, ids, before>>

\* update_input: the events of this frame; NewMinion and RandomizeMinion make
\* a Minion where the mouse is
NoEvent == [type |-> "none", pos |-> 0, dna |-> 1, charge |-> 0]

InputEvents ==
    {NoEvent} \cup [type : {"NewMinion"}, pos : Positions, dna : Dnas, charge : {0, ChargeOne}]

UpdateInput(e) ==
    /\ AtStep("update_input")
    /\ IF e.type = "NewMinion"
       THEN /\ world.last_id < MaxId
            /\ env > 0
            /\ world' = NewMinion(world, e.pos, e.dna, e.charge)
            /\ env' = env - 1
       ELSE /\ world' = world
            /\ env' = env
    /\ Issued(world')
    /\ Log(Call("app", "update_input"))
    /\ NextStep
    /\ Forget
    /\ UNCHANGED <<physics, alife, reglog>>

\* animation, audio, game and ai, and the physics system's from_world, write
\* nothing of what is modelled here
Quiet ==
    /\ AtStep("update_systems")
    /\ \/ Systems[sys] \in {"animation", "audio", "game", "ai"}
       \/ Systems[sys] = "physics" /\ Phases[phase] = "from_world"
    /\ Log(Call(Systems[sys], Phases[phase]))
    /\ NextPhase
    /\ Forget
    /\ UNCHANGED <<world, physics, alife, env, reglog, ids>>

AlifeFromWorld ==
    /\ At("alife", "from_world")
    /\ alife' = AlifeFrom(alife, world)
    /\ Log(Call("alife", "from_world"))
    /\ NextPhase
    /\ Forget
    /\ UNCHANGED <<world, physics, env, reglog, ids>>

\* the lifecycles that run out while the frame's dt passes
Expire(w, X) ==
    [w EXCEPT !.agents = [id \in DOMAIN w.agents |->
                            IF id \in X THEN [w.agents[id] EXCEPT !.state.expired = TRUE]
                            ELSE w.agents[id]]]

AlifeUpdate(X) ==
    /\ At("alife", "update")
    /\ Cardinality(X) <= env
    /\ \A id \in X : ~world.agents[id].state.expired
    /\ alife' = [alife EXCEPT !.dt = Dt]
    /\ world' = Expire(world, X)
    /\ env' = env - Cardinality(X)
    /\ Log(Call("alife", "update"))
    /\ NextPhase
    /\ Forget
    /\ UNCHANGED <<physics, reglog, ids>>

AlifeToWorldRefreshes(minions, spores, draw) ==
    /\ At("alife", "to_world")
    /\ world' = AlifeTo(alife, world, minions, spores, draw)
    /\ alife' = AlifeFrom(alife, world')
    /\ Issued(world')
    /\ Log(Call("alife", "to_world"))
    /\ NextPhase
    /\ freed' = <<>>
    /\ unreg' = <<>>
    /\ before' = world
    /\ UNCHANGED <<physics, env, reglog>>

AlifeToWorld(minions, spores, draw) ==
    /\ At("alife", "to_world")
    /\ world' = AlifeTo(alife, world, minions, spores, draw)
    /\ Issued(world')
    /\ Log(Call("alife", "to_world"))
    /\ NextPhase
    /\ freed' = <<>>
    /\ unreg' = <<>>
    /\ before' = world
    /\ UNCHANGED <<physics, alife, env, reglog>>

PhysicsStep(moved, position, angle) ==
    /\ At("physics", "update")
    /\ Cardinality(moved) <= env
    /\ moved = {} => position = 0 /\ angle = 0
    /\ physics' = PhysicsUpdate(physics, Dt, moved, position, angle)
    /\ env' = env - Cardinality(moved)
    /\ Log(Call("physics", "update"))
    /\ NextPhase
    /\ Forget
    /\ UNCHANGED <<world, alife, reglog, ids>>

\* the segments alife reads a contact from, and what a body can touch
Slots(w, ph) ==
    {<<id, i>> \in (DOMAIN w.agents) \X (1..MaxSegs) :
        /\ i \in DOMAIN w.agents[id].segs
        /\ WithLimb(id, i - 1) \in DOMAIN ph.handles
        /\ \/ w.agents[id].kind = "Spore"
           \/ w.agents[id].kind = "Minion" /\ "MOUTH" \in w.agents[id].segs[i].flags}

Touchable(ph) == {ph.bodies[h].user_data.creature_id : h \in DOMAIN ph.bodies}

PhysicsToWorld(touch) ==
    /\ At("physics", "to_world")
    /\ Cardinality(DOMAIN touch) <= env
    /\ \A s \in DOMAIN touch : touch[s] # s[1]
    /\ world' = Contacts(PhysicsTo(physics, world), touch)
    /\ env' = env - Cardinality(DOMAIN touch)
    /\ Log(Call("physics", "to_world"))
    /\ NextPhase
    /\ Forget
    /\ UNCHANGED <<physics, alife, reglog, ids>>

RegisterCallsAll(ags, new) == SortedSeq(DOMAIN ags)

\* App::register_all: register is called with every registered id the World
\* still has an agent for
RegisterCalls(ags, new) == SelectSeq(new, LAMBDA id : id \in DOMAIN ags)

RECURSIVE RegisterEach(_, _, _)
RegisterEach(ph, ags, found) ==
    IF found = <<>> THEN ph
    ELSE IF Panics(ags[Head(found)]) THEN Register(ph, Head(found), ags[Head(found)])
    ELSE RegisterEach(Register(ph, Head(found), ags[Head(found)]), ags, Tail(found))

\* the register calls made before the process is gone
RECURSIVE Reached(_, _)
Reached(ags, found) ==
    IF found = <<>> THEN <<>>
    ELSE IF Panics(ags[Head(found)]) THEN <<Head(found)>>
    ELSE <<Head(found)>> \o Reached(ags, Tail(found))

RegisterAll ==
    /\ AtStep("register_all")
    /\ LET r == Registered(world)
       IN  /\ world' = r.world
           /\ physics' = RegisterEach(physics, r.world.agents,
                                       RegisterCalls(r.world.agents, r.ids))
           /\ reglog' = reglog \o Reached(r.world.agents, RegisterCalls(r.world.agents, r.ids))
           /\ IF \E id \in Range(RegisterCalls(r.world.agents, r.ids)) : Panics(r.world.agents[id])
              THEN step' = 0 /\ UNCHANGED <<sys, phase, calls>>
              ELSE Log(Call("app", "register_all")) /\ NextStep
    /\ Forget
    /\ UNCHANGED <<alife, env, ids>>

----------------------------------------------------------------------------

Init ==
    /\ step = 1
    /\ sys = 1
    /\ phase = 1
    /\ world = EmptyWorld
    /\ physics = NewPhysics
    /\ alife = NewAlife
    /\ env = MaxEnv
    /\ calls = <<>>
    /\ freed = <<>>
    /\ unreg = <<>>
    /\ reglog = <<>>
    /\ ids = <<>>
    /\ before = EmptyWorld

Next ==
    \/ Cleanup
    \/ \E e \in InputEvents : UpdateInput(e)
    \/ Quiet
    \/ AlifeFromWorld
    \/ /\ At("alife", "update")
       /\ \E X \in SUBSET DOMAIN world.agents : AlifeUpdate(X)
    \/ /\ At("alife", "to_world")
       /\ \E minions \in Perms(AgentsOf(world.agents, "Minion")),
             spores \in Perms(AgentsOf(world.agents, "Spore")),
             draw \in BOOLEAN : AlifeToWorld(minions, spores, draw)
    \/ /\ At("physics", "update")
       /\ \E moved \in SUBSET DOMAIN physics.bodies, position \in Positions, angle \in Angles :
             PhysicsStep(moved, position, angle)
    \/ /\ At("physics", "to_world")
       /\ \E S \in SUBSET Slots(world, physics) :
             \E touch \in [S -> Touchable(physics)] : PhysicsToWorld(touch)
    \/ RegisterAll

Spec == Init /\ [][Next]_vars

----------------------------------------------------------------------------
(* Rig synthesis on its own: one freshly created agent of any morphology is
   waiting for register_all *)

\* Flock::new_star draws 5, 6 or 7 points
StarPoints == 5..7

RigShapes == {Ball, Box, Triangle} \cup {Star(n) : n \in StarPoints}

\* the segment trees of n segments: the first is the root, every other one is
\* free or attached to an earlier one
RigTrees(n) == {parent \in [1..n -> 0..(n - 1)] : \A i \in 1..n : parent[i] < i}

RigLimbs(shapes, parent) ==
    [i \in DOMAIN shapes |->
        Limb(shapes[i],
             IF parent[i] = 0 THEN NoAttachment ELSE Attachment(parent[i] - 1, 1),
             {})]

RigAgent(limbs) ==
    [kind |-> "Minion", dna |-> 1, state |-> NewState(MaxEnergy),
     segs |-> Build(limbs, Transform(0, 0), ChargeOne)]

InitRig ==
    /\ step = CHOOSE i \in DOMAIN UpdateSteps : UpdateSteps[i] = "register_all"
    /\ sys = 1
    /\ phase = 1
    /\ \E id \in 1..MaxId, n \in 1..MaxSegs :
          \E shapes \in [1..n -> RigShapes], parent \in RigTrees(n) :
              world = Insert([EmptyWorld EXCEPT !.last_id = id - 1],
                             RigAgent(RigLimbs(shapes, parent)))
    /\ physics = NewPhysics
    /\ alife = NewAlife
    /\ env = 0
    /\ calls = <<>>
    /\ freed = <<>>
    /\ unreg = <<>>
    /\ reglog = <<>>
    /\ ids = world.registered
    /\ before = EmptyWorld

NextRig == RegisterAll

SpecRig == InitRig /\ [][NextRig]_vars

----------------------------------------------------------------------------
(* One pass of the alife system over a populated World: the agents are alive
   and registered, agent 1 is in any condition, the others are well-fed
   Minions, fresh Resources and fresh Spores that touch agent 1 or nothing *)

SeedDnas == Dnas \cup {3}

\* at the starvation limit, below the reproduction debit, above it
SeedEnergies == {EnergyOne, MaxEnergy - 3, MaxEnergy + 2}

\* an agent as the World holds it in the middle of a run: last_touched is on
\* the MOUTH segments of a Minion and on the segment of a Spore
SeedAgent(kind, dna, energy, expired, foreign, pos, touch) ==
    LET limbs == IF kind = "Minion" THEN Morph(dna) ELSE <<Limb(Ball, NoAttachment, {})>>
        segs == Build(limbs, Transform(pos, 0), ChargeOne)
        touches(i) == kind = "Spore" \/ (kind = "Minion" /\ "MOUTH" \in segs[i].flags)
    IN  [kind |-> kind, dna |-> dna,
         state |-> [NewState(energy) EXCEPT !.expired = expired, !.foreign = foreign],
         segs |-> [i \in DOMAIN segs |->
                     IF touches(i) THEN [segs[i] EXCEPT !.state.last_touched = touch]
                     ELSE segs[i]]]

SeedSubjects ==
    {SeedAgent("Minion", dna, energy, expired, None, pos, touch) :
        dna \in SeedDnas, energy \in SeedEnergies, expired \in BOOLEAN,
        pos \in Positions, touch \in {None, 2}}
    \cup {SeedAgent("Resource", 1, energy, expired, None, 0, None) :
        energy \in {0, EnergyOne}, expired \in BOOLEAN}
    \cup {SeedAgent("Spore", dna, EnergyOne, expired, foreign, 0, touch) :
        dna \in Dnas, expired \in BOOLEAN, foreign \in {None} \cup Dnas, touch \in {None, 2}}

SeedPartners ==
    {SeedAgent("Minion", dna, MaxEnergy + 2, FALSE, None, 0, touch) :
        dna \in Dnas, touch \in {None, 1}}
    \cup {SeedAgent("Resource", 1, EnergyOne, FALSE, None, 0, None)}
    \cup {SeedAgent("Spore", dna, EnergyOne, FALSE, None, 0, touch) :
        dna \in Dnas, touch \in {None, 1}}

\* the calls of the tick before update_systems reaches the alife system
SeedCalls ==
    <<Call("app", "cleanup"), Call("app", "update_input")>>
    \o [k \in 1..(Len(Phases) * 4) |->
          Call(Systems[((k - 1) \div Len(Phases)) + 1], Phases[((k - 1) % Len(Phases)) + 1])]

InitAlife ==
    /\ step = CHOOSE i \in DOMAIN UpdateSteps : UpdateSteps[i] = "update_systems"
    /\ sys = CHOOSE i \in DOMAIN Systems : Systems[i] = "alife"
    /\ phase = 1
    /\ \E n \in 1..MaxSeed :
          \E subject \in SeedSubjects, partners \in [2..n -> SeedPartners] :
              world = [last_id |-> n,
                       agents |-> [id \in 1..n |-> IF id = 1 THEN subject ELSE partners[id]],
                       registered |-> <<>>]
    /\ physics = RegisterEach(NewPhysics, world.agents, SortedSeq(DOMAIN world.agents))
    /\ alife = NewAlife
    /\ env = 0
    /\ calls = SeedCalls
    /\ freed = <<>>
    /\ unreg = <<>>
    /\ reglog = SortedSeq(DOMAIN world.agents)
    /\ ids = SortedSeq(DOMAIN world.agents)
    /\ before = EmptyWorld

NextAlife ==
    \/ AlifeFromWorld
    \/ /\ At("alife", "update")
       /\ \E X \in SUBSET DOMAIN world.agents : AlifeUpdate(X)
    \/ /\ At("alife", "to_world")
       /\ \E minions \in Perms(AgentsOf(world.agents, "Minion")),
             spores \in Perms(AgentsOf(world.agents, "Spore")),
             draw \in BOOLEAN : AlifeToWorld(minions, spores, draw)

SpecAlife == InitAlife /\ [][NextAlife]_vars

----------------------------------------------------------------------------
(* The physics system on its own: the bodies of one or two registered Minions
   are about to be updated and read back. The World that to_world reads back
   into still has agent 1 with all its segments, or has lost its last
   segment, or has lost the agent. drop_below and follow_me are the system's
   policy entry points *)

Scales == {1, 2}
Edges == {0, 1}
Fates == {"kept", "shorter", "killed"}

DropBelow(ph, edge) == [ph EXCEPT !.edge = edge]

FollowMe(ph, pos) == [ph EXCEPT !.remote = pos]

Scaled(a, scale) ==
    [a EXCEPT !.segs = [i \in DOMAIN a.segs |-> [a.segs[i] EXCEPT !.transform.scale = scale]]]

Shorter(a) == [a EXCEPT !.segs = SubSeq(a.segs, 1, Len(a.segs) - 1)]

Fated(ags, fate) ==
    IF fate = "killed" THEN Kill(ags, 1)
    ELSE IF fate = "shorter" THEN [ags EXCEPT ![1] = Shorter(@)]
    ELSE ags

DropBelowCall(edge) ==
    /\ At("physics", "update")
    /\ env > 0
    /\ edge # physics.edge
    /\ physics' = DropBelow(physics, edge)
    /\ env' = env - 1
    /\ UNCHANGED <<step, sys, phase, world, alife, calls, freed, unreg, reglog, ids, before>>

FollowMeCall(pos) ==
    /\ At("physics", "update")
    /\ env > 0
    /\ pos # physics.remote
    /\ physics' = FollowMe(physics, pos)
    /\ env' = env - 1
    /\ UNCHANGED <<step, sys, phase, world, alife, calls, freed, unreg, reglog, ids, before>>

InitPhysics ==
    /\ step = CHOOSE i \in DOMAIN UpdateSteps : UpdateSteps[i] = "update_systems"
    /\ sys = CHOOSE i \in DOMAIN Systems : Systems[i] = "physics"
    /\ phase = CHOOSE i \in DOMAIN Phases : Phases[i] = "update"
    /\ \E n \in 1..2, dna \in SeedDnas, pos \in Positions, scale \in Scales, fate \in Fates :
          LET ags == [id \in 1..n |->
                        IF id = 1
                        THEN Scaled(SeedAgent("Minion", dna, MaxEnergy, FALSE, None, pos, None), scale)
                        ELSE SeedAgent("Minion", 3, MaxEnergy, FALSE, None, 0, None)]
          IN  /\ fate = "shorter" => Len(ags[1].segs) > 1
              /\ physics = RegisterEach(NewPhysics, ags, SortedSeq(DOMAIN ags))
              /\ world = [last_id |-> n, agents |-> Fated(ags, fate), registered |-> <<>>]
              /\ reglog = SortedSeq(DOMAIN ags)
              /\ ids = SortedSeq(DOMAIN ags)
    /\ alife = NewAlife
    /\ env = MaxEnv
    /\ calls = SeedCalls \o <<Call("alife", "from_world"), Call("alife", "update"),
                              Call("alife", "to_world"), Call("physics", "from_world")>>
    /\ freed = <<>>
    /\ unreg = <<>>
    /\ before = EmptyWorld

NextPhysics ==
    \/ \E edge \in Edges : DropBelowCall(edge)
    \/ \E pos \in Positions : FollowMeCall(pos)
    \/ /\ At("physics", "update")
       /\ \E moved \in SUBSET DOMAIN physics.bodies, position \in Positions, angle \in Angles :
             PhysicsStep(moved, position, angle)
    \/ /\ At("physics", "to_world")
       /\ \E S \in SUBSET Slots(world, physics) :
             \E touch \in [S -> Touchable(physics)] : PhysicsToWorld(touch)

SpecPhysics == InitPhysics /\ [][NextPhysics]_vars

----------------------------------------------------------------------------
(* Rig synthesis with attachments of any index: two freshly created agents
   are waiting for register_all, a well-formed one and one whose segments
   name any attachment index, in range or not *)

AnyAttachments == {NoAttachment} \cup {Attachment(k, 1) : k \in 0..MaxSegs}

AnyLimbs(att) == [i \in DOMAIN att |-> Limb(Ball, att[i], {})]

InitRigAny ==
    /\ step = CHOOSE i \in DOMAIN UpdateSteps : UpdateSteps[i] = "register_all"
    /\ sys = 1
    /\ phase = 1
    /\ \E n \in 1..MaxSegs, first \in BOOLEAN :
          \E att \in [1..n -> AnyAttachments] :
              LET any == RigAgent(AnyLimbs(att))
                  sound == RigAgent(Morph(2))
              IN  world = IF first THEN Insert(Insert(EmptyWorld, any), sound)
                          ELSE Insert(Insert(EmptyWorld, sound), any)
    /\ physics = NewPhysics
    /\ alife = NewAlife
    /\ env = 0
    /\ calls = <<>>
    /\ freed = <<>>
    /\ unreg = <<>>
    /\ reglog = <<>>
    /\ ids = world.registered
    /\ before = EmptyWorld

NextRigAny == RegisterAll

SpecRigAny == InitRigAny /\ [][NextRigAny]_vars

----------------------------------------------------------------------------
(* State::update on its own: the charge filter called again and again with a
   constant dt and a constant target. The f32 arithmetic is fixed point with
   Unit for 1.0, every product rounded to the nearest value; time is counted
   in half seconds. *)

Unit == 16384

\* tau: 2.0
Tau == 4

\* the frame times: 0, 0.5, 1 and 2 seconds
Frames == {0, 1, 2, 4}

Levels == {0, 1, Unit \div 3, Unit \div 2, Unit - 1, Unit}

\* f32::exp(-dt / tau), rounded to the nearest value
ExpNeg(dt) ==
    IF dt = 0 THEN Unit
    ELSE IF dt = 1 THEN 12760
    ELSE IF dt = 2 THEN 9937
    ELSE 6027

\* the rounded product of two values
MulFix(a, b) == (2 * a * b + Unit) \div (2 * Unit)

ChargeUpdateTwice(st, dt) ==
    LET alpha == 2 * (Unit - ExpNeg(dt))
    IN  [st EXCEPT !.charge = MulFix(st.target_charge, alpha)
                              + MulFix(st.charge, Unit - alpha)]

ChargeUpdate(st, dt) ==
    LET alpha == Unit - ExpNeg(dt)
    IN  [st EXCEPT !.charge = MulFix(st.target_charge, alpha)
                              + MulFix(st.charge, Unit - alpha)]

\* one more call of update(dt) on the segment
ChargeStep ==
    /\ env > 0
    /\ world' = [world EXCEPT !.agents[1].segs[1].state = ChargeUpdate(@, alife.dt)]
    /\ env' = env - 1
    /\ calls' = Append(calls, Call("state", "update"))
    /\ UNCHANGED <<step, sys, phase, physics, alife, freed, unreg, reglog, ids, before>>

\* State::with_charge(initial, target) on a segment, and a frame time
InitCharge ==
    /\ step = CHOOSE i \in DOMAIN UpdateSteps : UpdateSteps[i] = "update_systems"
    /\ sys = CHOOSE i \in DOMAIN Systems : Systems[i] = "alife"
    /\ phase = CHOOSE i \in DOMAIN Phases : Phases[i] = "to_world"
    /\ \E initial \in Levels, target \in Levels :
          world = Insert(EmptyWorld,
                         [kind |-> "Resource", dna |-> 1, state |-> NewState(EnergyOne),
                          segs |-> <<[Seg(Limb(Ball, NoAttachment, {}), Transform(0, 0), initial)
                                        EXCEPT !.state = SegState(initial, target)]>>])
    /\ physics = NewPhysics
    /\ \E dt \in Frames : alife = [NewAlife EXCEPT !.dt = dt]
    /\ env = 5 * Tau
    /\ calls = <<>>
    /\ freed = <<>>
    /\ unreg = <<>>
    /\ reglog = <<>>
    /\ ids = world.registered
    /\ before = world

NextCharge == ChargeStep

SpecCharge == InitCharge /\ [][NextCharge]_vars

----------------------------------------------------------------------------
(* Properties *)

TickDone == step = 1 /\ calls # <<>>

LastCall(cs) == IF cs = <<>> THEN Call("", "") ELSE cs[Len(cs)]

IsSystemCall(c) == c[1] \in SystemNames

Before(c, d) ==
    \E i, j \in DOMAIN calls : i < j /\ calls[i] = c /\ calls[j] = d

AllToWorldBefore(i) ==
    \A s \in SystemNames : \E j \in 1..(i - 1) : calls[j] = Call(s, "to_world")

Dead(id) == id \in DOMAIN world.agents /\ ~is_active(world.agents[id].state)

\* C1: in every tick each of the six systems has from_world, then update, then
\* to_world, invoked in that order and each exactly once; no to_world of a
\* system comes before the same system's from_world and update of the tick.
C1_ThreePhasesInOrder ==
    \A s \in SystemNames :
        /\ \A ph \in Range(Phases) : Count(calls, Call(s, ph)) <= 1
        /\ Call(s, "update") \in Range(calls) => Before(Call(s, "from_world"), Call(s, "update"))
        /\ Call(s, "to_world") \in Range(calls) => Before(Call(s, "update"), Call(s, "to_world"))
        /\ TickDone => \A ph \in Range(Phases) : Count(calls, Call(s, ph)) = 1

C1_Witness ==
    /\ TickDone
    /\ DOMAIN world.agents # {}
    /\ \A s \in SystemNames : Before(Call(s, "from_world"), Call(s, "to_world"))

\* C2: the systems are driven in the order animation, audio, game, AI, alife,
\* physics in every tick, so the last to_world of a tick is the physics
\* system's and the one before it alife's; a segment transform is written
\* only by a to_world of these two or by the driver's own steps.
Rank(s) ==
    CASE s = "animation" -> 1 [] s = "audio" -> 2 [] s = "game" -> 3
      [] s = "ai" -> 4 [] s = "alife" -> 5 [] s = "physics" -> 6

TransformsOf(w) ==
    [id \in DOMAIN w.agents |->
        [i \in DOMAIN w.agents[id].segs |-> w.agents[id].segs[i].transform]]

C2_OrderOfCalls ==
    LET sc == SelectSeq(calls, IsSystemCall)
        tw == SelectSeq(calls, LAMBDA c : IsSystemCall(c) /\ c[2] = "to_world")
    IN  /\ \A i, j \in DOMAIN sc : i < j => Rank(sc[i][1]) <= Rank(sc[j][1])
        /\ TickDone => /\ Len(tw) = 6
                       /\ tw[6] = Call("physics", "to_world")
                       /\ tw[5] = Call("alife", "to_world")

C2_Writers ==
    TransformsOf(world') # TransformsOf(world)
        => LastCall(calls') \in {Call("physics", "to_world"), Call("alife", "to_world"),
                             Call("app", "update_input"), Call("app", "cleanup")}

C2_FixedSystemOrder == [](C2_OrderOfCalls) /\ [][C2_Writers]_vars

C2_Witness ==
    /\ TickDone
    /\ \E id \in DOMAIN world.agents :
          /\ Count(reglog, id) = 1
          /\ world.agents[id].segs[1].transform.position = 1

\* C3, as the spec has it: in a tick cleanup comes after all systems'
\* to_world calls, and register_all after cleanup.
C3_CleanupAfterToWorld ==
    \A i \in DOMAIN calls :
        /\ calls[i] = Call("app", "cleanup") => AllToWorldBefore(i)
        /\ calls[i] = Call("app", "register_all")
              => \E j \in 1..(i - 1) : calls[j] = Call("app", "cleanup")

\* C3, amended: cleanup is the first call of every tick, before any system's
\* from_world, and register_all is the last, after all six to_world calls; a
\* tick's to_world calls are followed by register_all and then by the cleanup
\* that opens the next tick.
C3_CleanupFirstRegisterLast ==
    /\ calls # <<>> => calls[1] = Call("app", "cleanup")
    /\ \A i \in DOMAIN calls :
          /\ calls[i] = Call("app", "cleanup") => i = 1
          /\ calls[i] = Call("app", "register_all") => i = Len(calls) /\ AllToWorldBefore(i)
    /\ TickDone => LastCall(calls) = Call("app", "register_all")

C3_Witness ==
    /\ TickDone
    /\ LastCall(calls) = Call("app", "register_all")
    /\ \E id \in DOMAIN world.agents : Dead(id)

\* C4: cleanup takes exactly the inactive agents out of the World, and then
\* unregister is called once on each of the six systems for each swept agent,
\* and for no agent the registry still has.
C4_Cleanup ==
    AtStep("cleanup") =>
        LET dead == {id \in DOMAIN world.agents : ~is_active(world.agents[id].state)}
        IN  /\ Range(freed') = dead
            /\ DOMAIN world'.agents = DOMAIN world.agents \ dead
            /\ \A id \in dead, s \in SystemNames : Count(unreg', <<s, id>>) = 1
            /\ \A k \in DOMAIN unreg' : /\ unreg'[k][2] \in dead
                                        /\ unreg'[k][2] \notin DOMAIN world'.agents

C4_SweepThenUnregister == [][C4_Cleanup]_vars

C4_Witness ==
    /\ Len(freed) >= 1
    /\ Len(unreg) = 6 * Len(freed)
    /\ DOMAIN world.agents # {}

\* C5: every agent created in a tick, by an input event or by alife's
\* to_world, is registered with physics by the register_all of that tick, and
\* no agent is registered more than once.
C5_RegisteredSameTick ==
    /\ \A id \in Range(ids) : Count(reglog, id) <= 1
    /\ Range(reglog) \subseteq Range(ids)
    /\ Range(ids) \ Range(reglog) = Range(world.registered)
    /\ TickDone => \A id \in Range(ids) : Count(reglog, id) = 1

C5_Witness ==
    /\ TickDone
    /\ \E id, k \in DOMAIN world.agents :
          /\ world.agents[id].kind = "Spore" /\ Count(reglog, id) = 1
          /\ world.agents[k].kind = "Minion" /\ Count(reglog, k) = 1

\* C6: once die() has run on an agent, is_active() is false from then on: a
\* second die() leaves it dead and nothing in a later phase or tick makes the
\* agent with that id active again.
C6_Died ==
    \A id \in DOMAIN world.agents :
        world.agents[id].state.ndie > 0 => ~is_active(world.agents[id].state)

C6_StaysDead ==
    \A id \in DOMAIN world.agents :
        ~is_active(world.agents[id].state) /\ id \in DOMAIN world'.agents
            => /\ ~is_active(world'.agents[id].state)
               /\ world'.agents[id].state.ndie >= world.agents[id].state.ndie

C6_DeadForever == [](C6_Died) /\ [][C6_StaysDead]_vars

C6_Witness ==
    /\ LastCall(calls) = Call("physics", "to_world")
    /\ \E id \in DOMAIN world.agents :
          world.agents[id].state.ndie = 2 /\ ~is_active(world.agents[id].state)

\* C7: an agent leaves the registry only in the sweep of cleanup; no
\* from_world, update or to_world of any system removes one, and a dead agent
\* stays in the registry until that sweep.
C7_OnlyCleanupRemoves ==
    DOMAIN world.agents \subseteq DOMAIN world'.agents \/ AtStep("cleanup")

C8_IdsIncrease ==
    \A i, j \in DOMAIN ids : i < j => ids[i] < ids[j]

C8_Witness ==
    /\ Len(ids) >= 2
    /\ \E i \in DOMAIN ids : ids[i] \notin DOMAIN world.agents
    /\ Last(ids) \in DOMAIN world.agents
    /\ Last(ids) \in Range(world.registered)

----------------------------------------------------------------------------
(* Rig synthesis *)

\* the agents register has been called with and the World still has
Rigged == {id \in DOMAIN world.agents : id \in Range(reglog)}

BodiesOf(id) == {h \in DOMAIN physics.bodies : physics.bodies[h].user_data.creature_id = id}

BodiesTagged(refs) == {h \in DOMAIN physics.bodies : physics.bodies[h].user_data = refs}

BodyOf(id, i) == CHOOSE h \in BodiesTagged(WithLimb(id, i - 1)) : TRUE

\* C9: register(agent) creates exactly one body per segment, tagged with the
\* agent's id and the segment's index, so the tags of one agent's bodies are
\* pairwise distinct; the body of an n-pointed Star gets exactly n fixtures,
\* each with its own sub-shape index, and the body of a Ball, Box or Triangle
\* gets exactly one fixture.
C9_OneBodyPerSegment ==
    \A id \in Rigged :
        LET segs == world.agents[id].segs
        IN  /\ Cardinality(BodiesOf(id)) = Len(segs)
            /\ Cardinality({k \in DOMAIN physics.log : physics.log[k].op = "create_body"})
                  = Len(segs)
            /\ \A g, h \in BodiesOf(id) :
                  physics.bodies[g].user_data = physics.bodies[h].user_data => g = h
            /\ \A i \in DOMAIN segs :
                  /\ Cardinality(BodiesTagged(WithLimb(id, i - 1))) = 1
                  /\ LET fx == physics.bodies[BodyOf(id, i)].fixtures
                     IN  /\ Len(fx) = IF segs[i].shape.kind = "Star" THEN segs[i].shape.n ELSE 1
                         /\ \A k \in DOMAIN fx : /\ fx[k].creature_id = id
                                                  /\ fx[k].limb_index = i - 1
                         /\ segs[i].shape.kind = "Star" =>
                               \A k, l \in DOMAIN fx :
                                   fx[k].bone_index = fx[l].bone_index => k = l

C9_Witness ==
    \E id \in Rigged :
        LET segs == world.agents[id].segs
        IN  /\ Len(segs) = MaxSegs
            /\ Cardinality(BodiesOf(id)) = MaxSegs
            /\ \E i, j \in DOMAIN segs :
                  /\ segs[i].shape = Star(6)
                  /\ Len(physics.bodies[BodyOf(id, i)].fixtures) = 6
                  /\ segs[j].shape.kind = "Triangle"
                  /\ Len(physics.bodies[BodyOf(id, j)].fixtures) = 1

JointsTo(h) == {k \in DOMAIN physics.joints : physics.joints[k].body_b = h}

OpsAt(op) == {k \in DOMAIN physics.log : physics.log[k].op = op}

\* C10: register(agent) creates exactly one revolute joint for every segment
\* that declares an attachment and none for a segment without one (the root);
\* the joint goes from the body of the declared parent segment to the body of
\* the child, and every joint is created after all the bodies of the agent.
C10_OneJointPerAttachment ==
    \A id \in Rigged :
        LET segs == world.agents[id].segs
            attached == {i \in DOMAIN segs : segs[i].attached.some}
        IN  /\ Len(physics.joints) = Cardinality(attached)
            /\ \A i \in DOMAIN segs \ attached : JointsTo(BodyOf(id, i)) = {}
            /\ \A i \in attached :
                  /\ Cardinality(JointsTo(BodyOf(id, i))) = 1
                  /\ \A k \in JointsTo(BodyOf(id, i)) :
                        physics.joints[k].body_a = BodyOf(id, segs[i].attached.index + 1)
            /\ \A b \in OpsAt("create_body"), j \in OpsAt("create_joint") : b < j

C10_Witness ==
    \E id \in Rigged :
        LET segs == world.agents[id].segs
        IN  /\ Len(segs) = 3
            /\ ~segs[1].attached.some
            /\ segs[2].attached = Attachment(0, 1)
            /\ segs[3].attached = Attachment(0, 1)
            /\ Len(physics.joints) = 2
            /\ \A k \in DOMAIN physics.joints :
                  physics.joints[k].body_a = BodyOf(id, 1)
            /\ {physics.joints[k].body_b : k \in DOMAIN physics.joints}
                  = {BodyOf(id, 2), BodyOf(id, 3)}

----------------------------------------------------------------------------
(* Unregistration *)

HandlesOf(id) == {r \in DOMAIN physics.handles : r.creature_id = id}

----------------------------------------------------------------------------
(* The alife passes, as seen right after alife's to_world: before is the
   World it found, world the World it left *)

AlifeDone == LastCall(calls) = Call("alife", "to_world")

Were(kind) == AgentsOf(before.agents, kind)

\* the agents alife's to_world has created
Born(kind) == {id \in AgentsOf(world.agents, kind) : id > before.last_id}

Charges(a) == [i \in DOMAIN a.segs |-> a.segs[i].state.charge]

Advanced(a, dt) == [i \in DOMAIN a.segs |-> SegUpdate(a.segs[i].state, dt).charge]

\* C12: after alife's to_world a Resource is dead if its id is in the eaten
\* snapshot, or its energy is <= 0, or its lifecycle has expired; a Resource
\* meeting none of the three keeps its activity flag, and the charge filters of
\* a Resource's segments are advanced by dt exactly when it was active and met
\* none of the three.
C12_ResourceDeath ==
    AlifeDone =>
        \A id \in Were("Resource") :
            LET a == before.agents[id]
                b == world.agents[id]
                dies == \/ id \in DOMAIN alife.eaten
                        \/ a.state.energy <= 0
                        \/ a.state.expired
            IN  /\ dies => ~is_active(b.state) /\ Charges(b) = Charges(a)
                /\ ~dies => is_active(b.state) = is_active(a.state)
                /\ ~dies /\ is_active(a.state) => Charges(b) = Advanced(a, alife.dt)
                /\ ~dies /\ ~is_active(a.state) => Charges(b) = Charges(a)
                /\ b.state.energy = a.state.energy

\* a Resource that was eaten at full energy is dead with its charge as it was,
\* next to one that lives on with its charge advanced
C12_Witness ==
    /\ AlifeDone
    /\ \E id, other \in Were("Resource") :
          /\ id \in DOMAIN alife.eaten
          /\ before.agents[id].state.energy > 0
          /\ ~before.agents[id].state.expired
          /\ ~is_active(world.agents[id].state)
          /\ Charges(world.agents[id]) = Charges(before.agents[id])
          /\ other # id
          /\ is_active(world.agents[other].state)
          /\ world.agents[other].segs[1].state.charge < before.agents[other].segs[1].state.charge

OutsideExtent(a) == \E i \in DOMAIN a.segs : Outside(a.segs[i].transform.position)

\* the agents of a kind that alife's to_world created with this Dna at the
\* place of one of the agent's segments
BornFrom(kind, a) ==
    {id \in Born(kind) :
        /\ world.agents[id].dna = a.dna
        /\ \E i \in DOMAIN a.segs : world.agents[id].segs[1].transform = a.segs[i].transform}

\* C13, as the spec has it: an active Minion with a segment outside the World
\* extent at alife's to_world is dead afterwards and nothing else has happened
\* to it in that tick: no energy absorbed, no upkeep paid, no charge filter
\* advanced, no spawn and no corpse event.
C13_OutsideNoPartialState ==
    AlifeDone =>
        \A id \in Were("Minion") :
            LET a == before.agents[id]
                b == world.agents[id]
            IN  is_active(a.state) /\ OutsideExtent(a)
                    => /\ ~is_active(b.state)
                       /\ b.state.energy = a.state.energy
                       /\ Charges(b) = Charges(a)
                       /\ BornFrom("Spore", a) = {}
                       /\ BornFrom("Resource", a) = {}

\* the Minions that were active and have less than 1.0 energy after the upkeep
Starved == {id \in Were("Minion") : /\ is_active(before.agents[id].state)
                                     /\ world.agents[id].state.energy < EnergyOne}

StorageOf(S) ==
    {<<id, i>> \in S \X (1..MaxSegs) :
        i \in DOMAIN before.agents[id].segs /\ "STORAGE" \in before.agents[id].segs[i].flags}

CorpseOf(r, id, i) ==
    /\ world.agents[r].dna = before.agents[id].dna
    /\ world.agents[r].segs[1].transform = before.agents[id].segs[i].transform

\* C14: a Minion that was active and whose energy after the upkeep is below
\* 1.0 is dead after alife's to_world, and in that same to_world one Resource
\* has been created (decay_to_resource) for each of its STORAGE segments, with
\* that segment's transform and the Minion's Dna; no Resource is created for a
\* Minion whose energy stays at 1.0 or more.
C14_StarvationCorpses ==
    AlifeDone =>
        /\ \A id \in Starved : ~is_active(world.agents[id].state)
        /\ Cardinality(Born("Resource")) = Cardinality(StorageOf(Starved))
        /\ \A r \in Born("Resource") : \E s \in StorageOf(Starved) : CorpseOf(r, s[1], s[2])
        /\ \A s \in StorageOf(Starved) : \E r \in Born("Resource") : CorpseOf(r, s[1], s[2])

\* a Minion with two STORAGE segments starves and leaves two Resources, next
\* to a Minion that stays above 1.0 and leaves none
C14_Witness ==
    /\ AlifeDone
    /\ \E id \in Starved, other \in Were("Minion") \ Starved :
          /\ Cardinality(StorageOf({id})) = 2
          /\ Cardinality(Born("Resource")) = 2
          /\ \A r \in Born("Resource") : world.agents[r].dna = before.agents[id].dna
          /\ is_active(world.agents[other].state)
          /\ StorageOf({other}) # {}

RECURSIVE Sum(_, _)
Sum(f, S) ==
    IF S = {} THEN 0
    ELSE LET x == CHOOSE y \in S : TRUE IN f[x] + Sum(f, S \ {x})

\* what the upkeep of one to_world costs an agent found as a
UpkeepOf(a) ==
    Sum([i \in DOMAIN a.segs |-> alife.dt * a.segs[i].state.charge * Radius], DOMAIN a.segs)

\* the MOUTH segments of a that point at an eaten Resource
Feeding(a) ==
    {i \in DOMAIN a.segs : /\ "MOUTH" \in a.segs[i].flags
                           /\ a.segs[i].state.last_touched \in DOMAIN alife.eaten}

CreditOf(a) ==
    Sum([i \in Feeding(a) |-> alife.eaten[a.segs[i].state.last_touched].energy], Feeding(a))

\* the 75% debit of consume_ratio and whether the agent can afford it
Debit == (3 * MaxEnergy) \div 4

Affords(a) == a.state.energy >= Debit

Reproducing == {id \in Were("Minion") : /\ is_active(before.agents[id].state)
                                         /\ before.agents[id].state.expired
                                         /\ Affords(before.agents[id])}

SpawnOf(sp, id) ==
    /\ world.agents[sp].dna = before.agents[id].dna
    /\ world.agents[sp].segs[1].transform = Last(before.agents[id].segs).transform

\* C15, as the spec has it: an active Minion whose lifecycle has expired and
\* which affords the 75% debit produces exactly one Spore event with its own
\* Dna at its last segment's transform, is renewed, and does not die in that
\* tick.
C15_ReproducesAndLives ==
    AlifeDone =>
        /\ Cardinality(Born("Spore")) = Cardinality(Reproducing)
        /\ \A id \in Reproducing :
              /\ \E sp \in Born("Spore") : SpawnOf(sp, id)
              /\ ~world.agents[id].state.expired
              /\ is_active(world.agents[id].state)

\* C15, amended: such a Minion produces exactly one Spore event with its own
\* Dna at its last segment's transform, is debited and renewed; it is still
\* active after the tick unless one of its segments is outside the World
\* extent or its energy after the debit and the upkeep is below 1.0.
C15_ReproducesOnce ==
    AlifeDone =>
        /\ Cardinality(Born("Spore")) = Cardinality(Reproducing)
        /\ \A sp \in Born("Spore") : \E id \in Reproducing : SpawnOf(sp, id)
        /\ \A id \in Reproducing :
              LET a == before.agents[id]
                  b == world.agents[id]
              IN  /\ \E sp \in Born("Spore") : SpawnOf(sp, id)
                  /\ ~b.state.expired
                  /\ b.state.energy = a.state.energy - Debit + CreditOf(a) - UpkeepOf(a)
                  /\ is_active(b.state) <=> ~OutsideExtent(a) /\ b.state.energy >= EnergyOne

\* one Minion reproduces and lives on
C15_Witness ==
    /\ AlifeDone
    /\ \E id \in Reproducing :
          /\ Cardinality(Born("Spore")) = 1
          /\ is_active(world.agents[id].state)
          /\ ~world.agents[id].state.expired
          /\ world.agents[id].state.energy < before.agents[id].state.energy - Debit + 1

\* the Minions that to_world found active, expired and unable to pay
Stalled == {id \in Were("Minion") : /\ is_active(before.agents[id].state)
                                    /\ before.agents[id].state.expired
                                    /\ ~Affords(before.agents[id])}

Unpaid(id) ==
    /\ world.agents[id].state.expired
    /\ world.agents[id].state.energy
          = before.agents[id].state.energy + CreditOf(before.agents[id])
                                           - UpkeepOf(before.agents[id])

\* C16, as the spec has it: in every tick an active, expired Minion that
\* cannot afford the 75% debit spawns nothing, is neither debited nor renewed,
\* and stays active unless it starves (energy < 1.0).
C16_StalledLivesUnlessStarved ==
    AlifeDone =>
        /\ Cardinality(Born("Spore")) = Cardinality(Reproducing)
        /\ \A id \in Stalled :
              /\ Unpaid(id)
              /\ is_active(world.agents[id].state)
                    \/ world.agents[id].state.energy < EnergyOne

\* C16, amended: in every tick such a Minion spawns nothing, is neither
\* debited nor renewed, and stays active past expiry unless it starves or one
\* of its segments is outside the World extent; expiry alone never kills it.
C16_StalledUnpaid ==
    AlifeDone =>
        /\ Cardinality(Born("Spore")) = Cardinality(Reproducing)
        /\ \A id \in Stalled :
              /\ Unpaid(id)
              /\ is_active(world.agents[id].state)
                    <=> /\ ~OutsideExtent(before.agents[id])
                        /\ world.agents[id].state.energy >= EnergyOne

\* a stalled Minion is still active and expired after a tick that created no
\* Spore
C16_Witness ==
    /\ AlifeDone
    /\ Born("Spore") = {}
    /\ \E id \in Stalled : /\ is_active(world.agents[id].state)
                           /\ world.agents[id].state.expired
                           /\ world.agents[id].state.energy < before.agents[id].state.energy

\* the Spores that to_world found expired
Hatching == {id \in Were("Spore") : before.agents[id].state.expired}

HatchOf(m, id) ==
    LET sp == before.agents[id]
    IN  /\ world.agents[m].segs[1].transform = sp.segs[1].transform
        /\ IF sp.state.foreign = None
           THEN world.agents[m].dna = sp.dna
           ELSE world.agents[m].dna \in {sp.dna, sp.state.foreign}

\* C17: a Spore whose lifecycle has expired produces exactly one hatch event
\* and is dead afterwards; the hatched Dna equals the Spore's own Dna when it
\* was never fertilised, and is the crossover of the foreign Dna with its own
\* (one of the two, in this model) when foreign Dna was captured.
C17_HatchOnce ==
    AlifeDone =>
        /\ Cardinality(Born("Minion")) = Cardinality(Hatching)
        /\ \A m \in Born("Minion") : \E id \in Hatching : HatchOf(m, id)
        /\ \A id \in Hatching :
              /\ ~is_active(world.agents[id].state)
              /\ \E m \in Born("Minion") : HatchOf(m, id)

\* an unfertilised Spore of Dna 2 hatches its clone, the only Minion around
C17_Witness ==
    /\ AlifeDone
    /\ \E id \in Hatching :
          /\ before.agents[id].state.foreign = None
          /\ before.agents[id].dna = 2
          /\ Were("Minion") = {}
          /\ \E m \in Born("Minion") : /\ Born("Minion") = {m}
                                       /\ world.agents[m].dna = 2
                                       /\ ~is_active(world.agents[id].state)

\* the Minions of the other gender that a segment of Spore a points at
Suitors(a) ==
    {k \in Were("Minion") : /\ \E i \in DOMAIN a.segs : a.segs[i].state.last_touched = k
                            /\ Gender(before.agents[k].dna) # Gender(a.dna)}

\* C18: a Spore's State is fertilised in a tick only if the Spore was active
\* and not yet fertilised and one of its segments' last_touched points at a
\* Minion of the other gender, whose Dna it receives; a Spore touching only
\* same-gender Minions, or an already fertilised Spore, is never fertilised.
C18_FertilisedAcrossGenderOnly ==
    AlifeDone =>
        \A id \in Were("Spore") :
            LET a == before.agents[id]
                b == world.agents[id]
            IN  b.state.foreign # a.state.foreign =>
                    /\ is_active(a.state)
                    /\ ~is_fertilised(a.state)
                    /\ \E k \in Suitors(a) : b.state.foreign = before.agents[k].dna

\* the energy a Minion that to_world found active took in during the pass
GainOf(id) ==
    world.agents[id].state.energy - before.agents[id].state.energy
        + UpkeepOf(before.agents[id])
        + (IF id \in Reproducing THEN Debit ELSE 0)

Eaters == {id \in Were("Minion") : is_active(before.agents[id].state)}

\* C19, as the spec has it: the energy of an eaten Resource is credited to at
\* most one Minion in the tick, exactly once, whatever the number of mouths
\* that point at it.
C19_CreditedOnce ==
    AlifeDone =>
        /\ Sum([id \in Eaters |-> GainOf(id)], Eaters)
              = Sum([r \in DOMAIN alife.eaten |-> alife.eaten[r].energy], DOMAIN alife.eaten)
        /\ \A r \in DOMAIN alife.eaten :
              Cardinality({id \in Eaters : GainOf(id) > 0 /\ \E i \in Feeding(before.agents[id]) :
                              before.agents[id].segs[i].state.last_touched = r}) <= 1

\* C19, amended: the snapshot energy of an eaten Resource is credited once for
\* every MOUTH segment of an active Minion whose last_touched is that
\* Resource, so every Minion is credited once per such mouth and nothing else.
C19_CreditedPerMouth ==
    AlifeDone =>
        \A id \in Eaters : GainOf(id) = CreditOf(before.agents[id])

\* a Minion with two mouths on the same Resource takes its energy twice
C19_Witness ==
    /\ AlifeDone
    /\ \E id \in Eaters, r \in DOMAIN alife.eaten :
          /\ alife.eaten[r].energy > 0
          /\ Cardinality(Feeding(before.agents[id])) = 2
          /\ GainOf(id) = 2 * alife.eaten[r].energy
          /\ ~is_active(world.agents[r].state)

\* the active Minions with a MOUTH segment whose last_touched is r
MouthsOn(r) ==
    {id \in Eaters : \E i \in DOMAIN before.agents[id].segs :
                        /\ "MOUTH" \in before.agents[id].segs[i].flags
                        /\ before.agents[id].segs[i].state.last_touched = r}

\* C20: when two active Minions each have a MOUTH segment whose last_touched
\* is the same live Resource, both are credited the full energy the Resource
\* had at from_world, and the Resource dies once.
C20_BothCredited ==
    AlifeDone =>
        \A r \in Were("Resource") :
            (is_active(before.agents[r].state) /\ Cardinality(MouthsOn(r)) >= 2) =>
                /\ r \in DOMAIN alife.eaten
                /\ alife.eaten[r].energy = before.agents[r].state.energy
                /\ \A id \in MouthsOn(r) : GainOf(id) >= before.agents[r].state.energy
                /\ ~is_active(world.agents[r].state)
                /\ world.agents[r].state.ndie = 1

\* two Minions with one mouth each share a Resource of energy 1.0 and take
\* 1.0 each
C20_Witness ==
    /\ AlifeDone
    /\ \E r \in Were("Resource") :
          /\ is_active(before.agents[r].state)
          /\ before.agents[r].state.energy = EnergyOne
          /\ Cardinality(MouthsOn(r)) = 2
          /\ \A id \in MouthsOn(r) : GainOf(id) = EnergyOne
          /\ world.agents[r].state.ndie = 1

----------------------------------------------------------------------------
(* Snapshots and deferred creation *)

\* C21: the eaten and touched maps are those from_world computed, whatever
\* update and to_world did since: after to_world they still hold the State
\* each eaten Resource had at from_world, although update_resources has killed
\* the Resource, and every Minion took in the energy of that snapshot.
C21_Snapshots ==
    AlifeDone =>
        /\ alife.eaten = FindEatenResources(before.agents)
        /\ alife.touched = FindTouchedSpores(before.agents)
        /\ \A r \in DOMAIN alife.eaten :
              /\ alife.eaten[r] = before.agents[r].state
              /\ ~is_active(world.agents[r].state)
        /\ \A id \in Eaters :
              GainOf(id) = Sum([i \in Feeding(before.agents[id]) |->
                                  before.agents[before.agents[id].segs[i].state.last_touched].state.energy],
                               Feeding(before.agents[id]))

\* a Minion has taken in the energy of a Resource that is dead in the World
\* and still active in the snapshot, next to a recorded touch
C21_Witness ==
    /\ AlifeDone
    /\ alife.touched # <<>>
    /\ \E r \in DOMAIN alife.eaten, id \in Eaters :
          /\ is_active(alife.eaten[r])
          /\ ~is_active(world.agents[r].state)
          /\ alife.eaten[r].energy > 0
          /\ GainOf(id) = alife.eaten[r].energy

AllBorn == Born("Spore") \cup Born("Minion") \cup Born("Resource")

\* an agent as its creation entry point leaves it: no upkeep paid, no charge
\* advanced, no contact, alive
Untouched(a) ==
    /\ a.state = NewState(IF a.kind = "Minion" THEN MaxEnergy ELSE EnergyOne)
    /\ \A i \in DOMAIN a.segs : /\ a.segs[i].state.charge = ChargeOne
                                /\ a.segs[i].state.last_touched = None

StorageCount(id) ==
    Cardinality({i \in DOMAIN before.agents[id].segs : "STORAGE" \in before.agents[id].segs[i].flags})

\* C22: the spawn, hatch and corpse events of a to_world are applied after the
\* three passes, one creation per event, Spores first, hatched Minions next,
\* Resources last; the agents the passes iterated over are all still there,
\* and an agent created in this to_world has not been updated by it.
C22_DeferredCreation ==
    AlifeDone =>
        /\ DOMAIN world.agents = DOMAIN before.agents \cup AllBorn
        /\ AllBorn = (before.last_id + 1)..world.last_id
        /\ Cardinality(Born("Spore")) = Cardinality(Reproducing)
        /\ Cardinality(Born("Minion")) = Cardinality(Hatching)
        /\ Cardinality(Born("Resource")) = Sum([id \in Starved |-> StorageCount(id)], Starved)
        /\ \A s \in Born("Spore"), m \in Born("Minion") : s < m
        /\ \A m \in Born("Spore") \cup Born("Minion"), r \in Born("Resource") : m < r
        /\ \A b \in AllBorn : Untouched(world.agents[b])
        /\ \A b \in AllBorn : \E k \in DOMAIN world.registered : world.registered[k] = b

\* a Spore and two Resources are created in one to_world that advanced the
\* charge of a Spore it found
C22_Witness ==
    /\ AlifeDone
    /\ Cardinality(Born("Spore")) = 1
    /\ Cardinality(Born("Resource")) = 2
    /\ \E sp \in Were("Spore") :
          /\ is_active(world.agents[sp].state)
          /\ world.agents[sp].segs[1].state.charge < ChargeOne
    /\ \A b \in AllBorn : Untouched(world.agents[b])

----------------------------------------------------------------------------
(* The physics system's read-back and update *)

\* the bodies whose tag names no agent or no segment of the World
Dangling ==
    {h \in DOMAIN physics.bodies :
        LET key == physics.bodies[h].user_data
        IN  \/ key.creature_id \notin DOMAIN world.agents
            \/ key.limb_index + 1 \notin DOMAIN world.agents[key.creature_id].segs}

C23_ToWorld ==
    At("physics", "to_world") =>
        /\ physics' = physics
        /\ DOMAIN world'.agents
              = DOMAIN world.agents \ {d.creature_id : d \in Range(physics.dropped)}
        /\ \A id \in DOMAIN world'.agents :
              LET a == world.agents[id]
                  b == world'.agents[id]
              IN  /\ [b EXCEPT !.segs = a.segs] = a
                  /\ DOMAIN b.segs = DOMAIN a.segs
                  /\ \A i \in DOMAIN a.segs :
                        LET hs == BodiesTagged(WithLimb(id, i - 1))
                        IN  /\ [b.segs[i] EXCEPT !.transform = a.segs[i].transform,
                                                 !.state.last_touched = a.segs[i].state.last_touched]
                                  = a.segs[i]
                            /\ b.segs[i].transform.scale = a.segs[i].transform.scale
                            /\ IF hs = {}
                               THEN b.segs[i].transform = a.segs[i].transform
                               ELSE \E h \in hs :
                                       /\ b.segs[i].transform.position = physics.bodies[h].position
                                       /\ b.segs[i].transform.angle = physics.bodies[h].angle

\* C23: physics' to_world writes the position and the angle of each body into
\* the segment its tag resolves to and leaves that segment's scale and
\* everything else about it alone; a body whose agent or segment the World
\* no longer has is passed over, and nothing else changes.
C23_ReadBack == [][C23_ToWorld]_vars

\* after a to_world that passed over a body without a segment, a segment of
\* scale 2 is where the solver put its body and is still of scale 2
C23_Witness ==
    /\ LastCall(calls) = Call("physics", "to_world")
    /\ Dangling # {}
    /\ \E id \in DOMAIN world.agents : \E i \in DOMAIN world.agents[id].segs :
          /\ world.agents[id].segs[i].transform = [position |-> 1, angle |-> 1, scale |-> 2]
          /\ \E h \in BodiesTagged(WithLimb(id, i - 1)) :
                physics.bodies[h].position = 1 /\ physics.bodies[h].angle = 1

C24_Update ==
    (At("physics", "update") /\ phase' # phase) =>
        \A h \in DOMAIN physics.bodies :
            (physics.bodies[h].position >= physics.edge
                /\ h \in DOMAIN physics'.bodies
                /\ physics'.bodies[h].position < physics'.edge)
            => physics.bodies[h].user_data \in Range(physics'.dropped)

C24_ToWorld ==
    At("physics", "to_world") =>
        \A d \in Range(physics.dropped) : d.creature_id \notin DOMAIN world'.agents

\* C24: a body that crosses below the edge set by drop_below during update is
\* still there after the update and its tag is in the dropped collection, and
\* the to_world that follows removes the agent of every dropped entry from the
\* World.
C24_DroppedBelowEdge == [][C24_Update /\ C24_ToWorld]_vars

\* C25: whatever register calls have been made, every body is recorded in the
\* handle mapping under its own (agent, segment) tag, every entry leads to a
\* body with that tag, and so there are as many entries as bodies.
C25_HandlesMatchBodies ==
    /\ Cardinality(DOMAIN physics.handles) = Cardinality(DOMAIN physics.bodies)
    /\ \A h \in DOMAIN physics.bodies :
          /\ physics.bodies[h].user_data \in DOMAIN physics.handles
          /\ physics.handles[physics.bodies[h].user_data] = h
    /\ \A r \in DOMAIN physics.handles :
          /\ physics.handles[r] \in DOMAIN physics.bodies
          /\ physics.bodies[physics.handles[r]].user_data = r

\* two agents have been registered, one of them with three segments
C25_Witness ==
    /\ Cardinality(Range(reglog)) >= 2
    /\ Cardinality(DOMAIN physics.handles) >= 4
    /\ \E r \in DOMAIN physics.handles : r.limb_index = 2
    /\ \E r, q \in DOMAIN physics.handles : r.creature_id # q.creature_id

----------------------------------------------------------------------------
(* Malformed morphologies *)

\* C26: once register_all has been at work, an agent with an out-of-range
\* attachment index has no body and no handle entry, every other new agent
\* has its whole rig, and the tick goes on.
C26_MalformedOnlySkipped ==
    reglog # <<>> =>
        /\ step \in DOMAIN UpdateSteps
        /\ \A id \in DOMAIN world.agents :
              IF Panics(world.agents[id])
              THEN BodiesOf(id) = {} /\ HandlesOf(id) = {}
              ELSE /\ Cardinality(BodiesOf(id)) = Len(world.agents[id].segs)
                   /\ Cardinality(HandlesOf(id)) = Len(world.agents[id].segs)

----------------------------------------------------------------------------
(* Dangling back-references *)

TouchesOf(a) == {a.segs[i].state.last_touched : i \in DOMAIN a.segs} \ {None}

\* C27: a last_touched that names no Resource (for a mouth) or no Minion (for
\* a Spore), or nothing the snapshot holds, changes nothing: no entry is made
\* for it in eaten or touched, the Minion absorbs nothing, the Spore is not
\* fertilised, and the pass still updates every active agent.
C27_DanglingIsNoOp ==
    AlifeDone =>
        /\ DOMAIN alife.eaten \subseteq Were("Resource")
        /\ DOMAIN alife.touched \subseteq Were("Minion")
        /\ \A id \in Eaters :
              /\ TouchesOf(before.agents[id]) \cap DOMAIN alife.eaten = {} => GainOf(id) = 0
              /\ Charges(world.agents[id]) = Advanced(before.agents[id], alife.dt)
        /\ \A id \in Were("Spore") :
              /\ TouchesOf(before.agents[id]) \cap DOMAIN alife.touched = {} =>
                    world.agents[id].state.foreign = before.agents[id].state.foreign
              /\ (is_active(before.agents[id].state) /\ ~before.agents[id].state.expired) =>
                    Charges(world.agents[id]) = Advanced(before.agents[id], alife.dt)

\* a Minion whose mouth names an id the World does not have has absorbed
\* nothing and paid its upkeep
C27_Witness ==
    /\ AlifeDone
    /\ alife.eaten = <<>>
    /\ \E id \in Eaters :
          /\ TouchesOf(before.agents[id]) # {}
          /\ TouchesOf(before.agents[id]) \cap DOMAIN before.agents = {}
          /\ GainOf(id) = 0
          /\ world.agents[id].state.energy < before.agents[id].state.energy
          /\ is_active(world.agents[id].state)

----------------------------------------------------------------------------
(* Forces and the solver step *)

Steering == {h \in DOMAIN physics.bodies : physics.bodies[h].user_data.limb_index \in {1, 2}}

ForcesOn(log, h) == {k \in DOMAIN log : log[k].op = "apply_force" /\ log[k].a = h}

C28_Update ==
    (At("physics", "update") /\ phase' # phase) =>
        LET log == physics'.log
        IN  /\ log # <<>>
            /\ log[Len(log)] = Op("step", Dt, 8, 3)
            /\ \A k \in 1..(Len(log) - 1) : log[k].op = "apply_force"
            /\ \A h \in Steering :
                  IF physics.remote - physics.bodies[h].position = 0
                  THEN ForcesOn(log, h) = {}
                  ELSE /\ Cardinality(ForcesOn(log, h)) = 1
                       /\ \A k \in ForcesOn(log, h) :
                             log[k].b = 10 * Sign(physics.remote - physics.bodies[h].position)
            /\ \A h \in DOMAIN physics.bodies \ Steering :
                  physics.bodies[h].user_data.limb_index \notin {3, 4} => ForcesOn(log, h) = {}

\* C28: in an update every force is applied before the one step(dt, 8, 3)
\* call, which is the last call of the update, and a steering body whose
\* direction to the remote target is exactly zero gets no force.
C28_ForcesThenStep == [][C28_Update]_vars

\* an update has pulled the steering body of one agent towards the target and
\* skipped the steering bodies of the other, which were at the target
C28_Witness ==
    /\ LastCall(calls) = Call("physics", "update")
    /\ Len(physics.log) = 2
    /\ physics.log[1] = Op("apply_force", 2, physics.log[1].a, 10)
    /\ physics.log[2].op = "step"
    /\ \E h \in Steering : physics.bodies[h].user_data.creature_id = 1
    /\ physics.remote = 1

\* the systems of this tick have not yet killed anything: the tick is between
\* its cleanup and the to_world of alife
BeforeDeaths ==
    \/ AtStep("update_input")
    \/ AtStep("update_systems") /\ Call("alife", "to_world") \notin Range(calls)

AllActive == \A id \in DOMAIN world.agents : is_active(world.agents[id].state)

\* the agents swept by the last cleanup are gone from the World and from
\* every system, and each of them was created and then registered with physics
SweptAreGone ==
    /\ \A id \in Range(freed) :
          /\ id \notin DOMAIN world.agents
          /\ BodiesOf(id) = {}
          /\ \A s \in SystemNames : Count(unreg, <<s, id>>) = 1
    /\ \A k \in DOMAIN unreg : unreg[k][2] \in Range(reglog)
    /\ Range(reglog) \subseteq Range(ids)
    /\ \A h \in DOMAIN physics.bodies :
          physics.bodies[h].user_data.creature_id \in DOMAIN world.agents

C29_DiedUnregistered ==
    /\ AtStep("register_all")
    /\ \E id \in DOMAIN world.agents : Dead(id) /\ id \notin Range(reglog)

\* the Spores in the World
Spores == AgentsOf(world.agents, "Spore")

\* C30: a Spore hatches at most once in its life. Whenever alife's to_world
\* is about to run every Spore in the World is active, the dead ones having
\* been swept by the cleanup of the tick; and a to_world that found expired
\* Spores found them active, left each of them dead and created one Minion
\* for each, so that the to_world of the following tick does not find them.
C30_HatchesOnce ==
    /\ At("alife", "to_world") =>
          \A id \in Spores : is_active(world.agents[id].state)
    /\ AlifeDone =>
          /\ \A id \in Hatching : /\ is_active(before.agents[id].state)
                                  /\ id \in Spores
                                  /\ ~is_active(world.agents[id].state)
          /\ Cardinality(Born("Minion")) = Cardinality(Hatching)
    /\ AtStep("update_input") => Spores \cap Range(freed) = {}

\* a Spore laid in an earlier tick has just hatched and died
C30_Witness ==
    /\ AlifeDone
    /\ \E id \in Hatching : /\ id \in Range(reglog)
                            /\ ~is_active(world.agents[id].state)
                            /\ \E m \in Born("Minion") : HatchOf(m, id)

(* The charge filter: the segment's charge now and at the start, its target,
   the distance to the target, and the time that has passed *)

ChargeNow == world.agents[1].segs[1].state.charge

ChargeStart == before.agents[1].segs[1].state.charge

ChargeTarget == world.agents[1].segs[1].state.target_charge

Dist(x) == IF x > ChargeTarget THEN x - ChargeTarget ELSE ChargeTarget - x

\* 5 * tau / dt calls or more have been made
FiveTau == alife.dt > 0 /\ Len(calls) * alife.dt >= 5 * Tau

\* the charge is within the tolerance of a comparison of two values, four
\* units of the last place
Within(x) == Dist(x) <= 4

\* the charge is within one unit of the target: each of the two roundings of
\* a call can move the sum by half a unit
Rounded(x) == Dist(x) <= 1

C31_Monotone ==
    /\ Dist(ChargeNow') <= Dist(ChargeNow)
    /\ (ChargeNow' - ChargeTarget) * (ChargeNow - ChargeTarget) >= 0

\* C31, as the spec has it: with a constant dt and a constant target every
\* call moves the charge towards the target and never past it, and after
\* 5 * tau / dt calls the charge equals the target within the tolerance of
\* the arithmetic.
C31_ConvergedAfterFiveTau ==
    /\ [][C31_Monotone]_vars
    /\ [](FiveTau => Within(ChargeNow))

C31_NearMonotone ==
    /\ Dist(ChargeNow') <= Dist(ChargeNow) \/ Rounded(ChargeNow')
    /\ \/ (ChargeNow' - ChargeTarget) * (ChargeNow - ChargeTarget) >= 0
       \/ Rounded(ChargeNow')

\* C31: with a constant dt and a constant target no call moves the charge
\* away from the target or past it by more than one rounding, and after
\* 5 * tau / dt calls the distance to the target is below one hundredth of
\* the distance at the start, up to the roundings; with dt = 0 the charge
\* does not move.
C31_WithinOneHundredth ==
    /\ [][C31_NearMonotone]_vars
    /\ [](FiveTau => 100 * Dist(ChargeNow) <= Dist(ChargeStart) \/ Within(ChargeNow))
    /\ [](alife.dt = 0 => ChargeNow = ChargeStart)

\* a charge of 1.0 with target 0 is, after 5 * tau / dt calls, still further
\* from the target than the tolerance
C31_Witness ==
    /\ FiveTau
    /\ ChargeStart = Unit
    /\ ChargeTarget = 0
    /\ ~Within(ChargeNow)
    /\ 100 * Dist(ChargeNow) <= Dist(ChargeStart)

====
